---- MODULE Spec2Model ----
(***************************************************************************)
(* Request-dispatch dataplane of the LLM gateway: circuit breaker          *)
(* (common/helper/backoff.go), channel health tracker                      *)
(* (model/channel_healthiest.go), distributor (middleware/distributor.go)  *)
(* and text relay (relay/controller/text.go).                              *)
(***************************************************************************)
EXTENDS Integers, Sequences, FiniteSets, TLC

(***************************************************************************)
(* Bounds of the model.                                                    *)
(***************************************************************************)
\* last instant of the discrete clock
MaxTime == 4
\* cap on counts.Requests between two resets of the breaker counters
MaxRequests == 5
\* cap on the number of requests that are inside Allow() or admitted and unreported
MaxInflight == 2
\* cap on the number of RecordSuccess / RecordFailure calls on the health tracker
MaxCalls == 4
\* largest quota a token starts with
MaxQuota == 3
\* largest quota one request pre-consumes or uses
MaxCost == 2
\* cap on the number of requests the distributor handles
MaxDispatch == 3
\* longest candidate list handed to the selector
MaxList == 3
\* cap on the results recorded in the tracker the selector reads
MaxSelRecords == 2
\* cap on the calls made to the sharded limiter by concurrent goroutines
MaxLimRequests == 3
\* cap on the number of clock advances in a run of the rate limiter
MaxJumps == 3
\* last instant of the response cache's clock
MaxCacheTime == 3
\* cap on the number of calls and requests made to the response cache
MaxCacheOps == 3
MaxCacheRequests == 2
MaxCaptures == 1
MaxSemTime == 1
MaxSemOps == 3
MaxAdds == 3
\* chunkSize of batchInsertLogs, 100 in the program, scaled to the batches of the model
chunkSize == 2
MaxRetriesBound == 2
MaxFnCalls == 4
MaxDistribute == 2
MaxWindowTime == 3
MaxWindowCalls == 3
MaxQuotaCalls == 3
MaxStreamLines == 4
MaxHitLookups == 3
MaxStatsCalls == 2
MaxRecordCalls == 3
MaxMetricLookups == 3

\* goroutines that call CircuitBreaker.Allow concurrently
Procs == {"p1", "p2"}

VARIABLES
    \* ---- circuit breaker (CircuitBreaker struct) ----
    settings,       \* cb.settings
    cb,             \* state, counts, lastStateChange, halfOpenCount
    mu,             \* holder of cb.mu while a locked section spans several steps
    now,            \* the clock read by time.Now() / time.Since()
    apc,            \* position of each goroutine inside Allow()
    alc,            \* Allow()'s local lastChange
    inflight,       \* admitted requests whose result is not yet recorded, by how admitted
    fresh,          \* history: since New(), every Allow() found the breaker closed and
                    \* nothing but RecordFailure() was recorded
    hoSuccesses,    \* history: successes recorded in the current half-open period
    last,           \* history: the last operation completed and the state it found
    \* ---- health tracker (ChannelHealthTracker) ----
    hheap,          \* the ChannelHealth records allocated so far
    hmap,           \* tracker.channels: channel id -> index into hheap, 0 when absent
    hmu,            \* holder of each record's h.mu
    hpc,            \* position of each goroutine inside RecordSuccess / RecordFailure
    hcall,          \* the arguments of the call each goroutine is in
    href,           \* the local h returned by GetOrCreate
    hcalls,         \* history: calls made per channel, and failures since the last success

    \* ---- text relay (RelayTextHelper) ----
    ResponseCacheEnabled,   \* config.ResponseCacheEnabled
    tokenQuota,     \* remaining quota of the token the requests are billed to
    rpc,            \* position of each request inside RelayTextHelper
    IsStream,       \* meta.IsStream of each request
    preConsumedQuota,   \* the local preConsumedQuota of each request
    rtask,          \* the quota goroutine each request has started and not yet run
    rresult,        \* what RelayTextHelper returned
    rnet,           \* history: what each request has added to the token quota so far
    \* ---- distributor (Distribute) ----
    chStatus,       \* Channel.Status of every channel in the store
    snapshot,       \* group2model2channels[group][model], sorted by priority
    dbreakers,      \* the breaker manager's breaker of every channel
    dhealth,        \* the health tracker's record of every channel
    dlast,          \* what the last Distribute call did, and what it dispatched to
    dcount,         \* requests handled so far
    \* ---- channel selector (SmartChannelSelector) ----
    selHealth,      \* the health tracker the selector reads
    selCount,       \* results recorded in that tracker so far
    selOut,         \* the last selector call: its arguments, its samples, its result
    \* ---- rate limiter (ShardedRateLimiter, rate-limit middleware) ----
    lclock,         \* the wall clock, in ticks of 10 ms
    RedisEnabled,   \* common.RedisEnabled
    lsettings,      \* maxRequestNum, duration and expirationDuration in seconds
    lstore,         \* per key: the entry of the shard store, or the scores of the sorted set
    lcall,          \* the call each goroutine is in: its key and the now it read
    lcount,         \* limiter calls started so far
    ljumps,         \* clock advances so far
    lhist,          \* history: per key, the calls decided so far and their outcome
    \* ---- exact response cache (ResponseCache, streaming capture and replay) ----
    cclock,         \* the clock, in seconds
    rc,             \* globalCache: enabled and ttl
    kv,             \* the remote key-value store: per key the data and when it expires
    ctasks,         \* the store goroutines started by CaptureAndCacheStream and not yet run
    cops,           \* cache calls and requests made so far
    cstored,        \* history: per model and messages, the last StoreCache that wrote
    clookup,        \* history: the last CheckCache call and what it returned
    creqs,          \* history: the requests relayed so far and how they were served
    sclock,         \* the wall clock of the semantic cache, in hours
    sc,             \* the SemanticCache: enabled, threshold (in hundredths), maxSize
    vectors,        \* sc.vectors: vector key -> VectorEntry
    sops,           \* StoreSemantic and CheckSemantic calls made so far
    sunder,         \* history: the model each stored response was stored under
    slookup,        \* history: the last CheckSemantic call and what it returned
    sevict,         \* history: the last store, ages and hit counts of the entries it evicted and kept
    lbuffer,        \* LogBatcher.buffer: the entries added and not yet swapped out
    lbmaxSize,      \* LogBatcher.maxSize
    lbstarted,      \* LogBatcher.started
    lbdone,         \* whether the done channel is closed
    lbnext,         \* Add calls made so far; the entries are numbered 1, 2, ...
    lbpending,      \* flush goroutines started by Add that have not run yet
    lbinflight,     \* batches swapped out by a flush that has not called batchInsertLogs yet
    lbloop,         \* where flushLoop is
    lbstop,         \* where the Stop call is
    lbstore,        \* the rows of the log table
    lbhanded,       \* history: the entries passed to batchInsertLogs
    lbbefore,       \* history: the number of Add calls made before Stop was called
    lbfailed,       \* history: the entries of the batches whose insert returned an error
    rbconfig,       \* the BackoffConfig of the RetryWithBackoff call and whether shouldRetry is nil
    rbattempt,      \* attempt, the loop counter of RetryWithBackoff
    rbpc,           \* where RetryWithBackoff is: loop, sleep or returned
    rbresult,       \* what RetryWithBackoff returned
    rbcalls,        \* history: the results of the calls of fn, in order
    dxStatus,       \* Channel.Status of the channels of the one user group
    dxModels,       \* Channel.Models of those channels, as a set
    dxCache,        \* group2model2channels[group]: model -> channels sorted by priority
    resolverEnabled, \* automodel.resolverEnabled
    dxLast,         \* history: what the last Distribute call did
    dxCount,        \* Distribute calls made so far
    wclock,         \* the wall clock of the callers of the sliding-window script, in milliseconds
    wmax,           \* max_requests
    wzset,          \* the sorted set of the key: members <<score, random suffix>>
    wcall,          \* per caller: whether it has read its timestamp, and the timestamp
    wcalls,         \* script runs so far
    whist,          \* history: the runs answered allowed, in order
    avStore,        \* automodel: the channels of the store: status, group string, models string, weight, priority
    avHealth,       \* automodel: the health score of each channel, in thousandths
    avReq,          \* automodel: the virtual model, the group and the language of the request
    avResult,       \* automodel: what Resolve returned, once called
    qenabled,       \* quota script: RedisEnabled
    qkey,           \* quota script: the value stored under the key in Redis, if any
    qinitial,       \* history: the value stored at the start
    qcall,          \* quota script: each caller's call: sent, run with its reply, or none
    qcalls,         \* the number of calls made
    qhist,          \* history: the calls that returned, each with the value its script found and left
    stLines,        \* stream: the number of lines the upstream body holds
    stRead,         \* stream: the lines scanned so far
    stBuffered,     \* stream: the lines written to the buffer
    stDelivered,    \* stream: the lines the client has received
    stConnected,    \* stream: whether the client is still connected
    stPc,           \* stream: scanning, failed (error returned) or done (nil returned)
    stStore,        \* stream: the number of lines handed to the StoreCache goroutine, -1 before
    htCount,        \* hit count: HitCount of the entry the lookups match
    htPc,           \* hit count: each goroutine's position in CheckSemantic or StoreSemantic
    htLocal,        \* hit count: the HitCount a lookup has read for its increment
    htWriter,       \* hit count: whether the write lock is held
    htHits,         \* history: the lookups that found the entry and returned
    htSeen,         \* history: the stores done, and whether one, holding the write lock, found a lookup between its read and its write
    hsPc,           \* health stats: the position of GetChannelHealthStats on the channel
    hsNested,       \* health stats: the locked reads of the channel done inside the outer read lock
    hsReaders,      \* health stats: the read locks held on the channel's mutex
    hsW,            \* health stats: each recorder's state on the channel's mutex
    hsCalls,        \* the numbers of calls made: of GetChannelHealthStats and of the recorders
    \* ---- cache metrics (CacheMetrics under RelayTextHelper) ----
    cmHits,         \* cacheMetrics.hits
    cmMisses,       \* cacheMetrics.misses
    cmPc,           \* position of each request inside the cache check of RelayTextHelper
    cmLookups       \* history: CheckCache calls made so far

cbVars == <<settings, cb, mu, now, apc, alc, inflight, fresh, hoSuccesses, last>>
hVars == <<hheap, hmap, hmu, hpc, hcall, href, hcalls>>
rVars == <<ResponseCacheEnabled, tokenQuota, rpc, IsStream, preConsumedQuota, rtask,
           rresult, rnet>>
dVars == <<chStatus, snapshot, dbreakers, dhealth, dlast, dcount>>

sVars == <<selHealth, selCount, selOut>>

lVars == <<lclock, RedisEnabled, lsettings, lstore, lcall, lcount, ljumps, lhist>>

cVars == <<cclock, rc, kv, ctasks, cops, cstored, clookup, creqs>>

semVars == <<sclock, sc, vectors, sops, sunder, slookup, sevict>>

lbVars == <<lbuffer, lbmaxSize, lbstarted, lbdone, lbnext, lbpending, lbinflight, lbloop, lbstop, lbstore, lbhanded, lbbefore, lbfailed>>

rbVars == <<rbconfig, rbattempt, rbpc, rbresult, rbcalls>>

dxVars == <<dxStatus, dxModels, dxCache, resolverEnabled, dxLast, dxCount>>

wVars == <<wclock, wmax, wzset, wcall, wcalls, whist>>

avVars == <<avStore, avHealth, avReq, avResult>>

qVars == <<qenabled, qkey, qinitial, qcall, qcalls, qhist>>

stVars == <<stLines, stRead, stBuffered, stDelivered, stConnected, stPc, stStore>>

htVars == <<htCount, htPc, htLocal, htWriter, htHits, htSeen>>

hsVars == <<hsPc, hsNested, hsReaders, hsW, hsCalls>>

cmVars == <<cmHits, cmMisses, cmPc, cmLookups>>

vars == <<cbVars, hVars, rVars, dVars, sVars, lVars, cVars, semVars, lbVars, rbVars, dxVars, wVars, avVars, qVars, stVars, htVars, hsVars, cmVars>>

notBreaker == <<hVars, rVars, dVars, sVars, lVars, cVars, semVars, lbVars, rbVars, dxVars, wVars, avVars, qVars, stVars, htVars, hsVars, cmVars>>
notHealth == <<cbVars, rVars, dVars, sVars, lVars, cVars, semVars, lbVars, rbVars, dxVars, wVars, avVars, qVars, stVars, htVars, hsVars, cmVars>>
notRelay == <<cbVars, hVars, dVars, sVars, lVars, cVars, semVars, lbVars, rbVars, dxVars, wVars, avVars, qVars, stVars, htVars, hsVars, cmVars>>
notDist == <<cbVars, hVars, rVars, sVars, lVars, cVars, semVars, lbVars, rbVars, dxVars, wVars, avVars, qVars, stVars, htVars, hsVars, cmVars>>
notSelector == <<cbVars, hVars, rVars, dVars, lVars, cVars, semVars, lbVars, rbVars, dxVars, wVars, avVars, qVars, stVars, htVars, hsVars, cmVars>>
notLimiter == <<cbVars, hVars, rVars, dVars, sVars, cVars, semVars, lbVars, rbVars, dxVars, wVars, avVars, qVars, stVars, htVars, hsVars, cmVars>>
notCache == <<cbVars, hVars, rVars, dVars, sVars, lVars, semVars, lbVars, rbVars, dxVars, wVars, avVars, qVars, stVars, htVars, hsVars, cmVars>>
notSemantic == <<cbVars, hVars, rVars, dVars, sVars, lVars, cVars, lbVars, rbVars, dxVars, wVars, avVars, qVars, stVars, htVars, hsVars, cmVars>>
notBatcher == <<cbVars, hVars, rVars, dVars, sVars, lVars, cVars, semVars, rbVars, dxVars, wVars, avVars, qVars, stVars, htVars, hsVars, cmVars>>
notRetry == <<cbVars, hVars, rVars, dVars, sVars, lVars, cVars, semVars, lbVars, dxVars, wVars, avVars, qVars, stVars, htVars, hsVars, cmVars>>
notDistribute == <<cbVars, hVars, rVars, dVars, sVars, lVars, cVars, semVars, lbVars, rbVars, wVars, avVars, qVars, stVars, htVars, hsVars, cmVars>>
notWindow == <<cbVars, hVars, rVars, dVars, sVars, lVars, cVars, semVars, lbVars, rbVars, dxVars, avVars, qVars, stVars, htVars, hsVars, cmVars>>
notResolve == <<cbVars, hVars, rVars, dVars, sVars, lVars, cVars, semVars, lbVars, rbVars, dxVars, wVars, qVars, stVars, htVars, hsVars, cmVars>>
notQuota == <<cbVars, hVars, rVars, dVars, sVars, lVars, cVars, semVars, lbVars, rbVars, dxVars, wVars, avVars, stVars, htVars, hsVars, cmVars>>
notStream == <<cbVars, hVars, rVars, dVars, sVars, lVars, cVars, semVars, lbVars, rbVars, dxVars, wVars, avVars, qVars, htVars, hsVars, cmVars>>
notHits == <<cbVars, hVars, rVars, dVars, sVars, lVars, cVars, semVars, lbVars, rbVars, dxVars, wVars, avVars, qVars, stVars, hsVars, cmVars>>
notStats == <<cbVars, hVars, rVars, dVars, sVars, lVars, cVars, semVars, lbVars, rbVars, dxVars, wVars, avVars, qVars, stVars, htVars, cmVars>>
notMetrics == <<cbVars, hVars, rVars, dVars, sVars, lVars, cVars, semVars, lbVars, rbVars, dxVars, wVars, avVars, qVars, stVars, htVars, hsVars>>

(***************************************************************************)
(* Each specification runs one component; the others stay as constructed.  *)
(***************************************************************************)
HProcs == {"h1", "h2"}
MReqs == {"m1", "m2"}
HChans == {1, 2}
NoCall == [ch |-> 0, ok |-> FALSE, latency |-> 0]

ParkedHealth ==
    /\ hheap = <<>>
    /\ hmap = [c \in HChans |-> 0]
    /\ hmu = <<>>
    /\ hpc = [p \in HProcs |-> "idle"]
    /\ hcall = [p \in HProcs |-> NoCall]
    /\ href = [p \in HProcs |-> 0]
    /\ hcalls = [c \in HChans |-> [success |-> 0, failure |-> 0, sinceSuccess |-> 0]]

Reqs == {"r1", "r2"}
NoTask == [kind |-> "none", delta |-> 0]

ParkedRelayState ==
    /\ tokenQuota = 0
    /\ rpc = [r \in Reqs |-> "idle"]
    /\ IsStream = [r \in Reqs |-> FALSE]
    /\ preConsumedQuota = [r \in Reqs |-> 0]
    /\ rtask = [r \in Reqs |-> NoTask]
    /\ rresult = [r \in Reqs |-> "none"]
    /\ rnet = [r \in Reqs |-> 0]

ParkedRelay ==
    /\ ResponseCacheEnabled = FALSE
    /\ ParkedRelayState

DChans == {1, 2, 3}
NoDispatch == [code |-> "none", path |-> "none", channel |-> 0, status |-> "none",
               breaker |-> "none", reported |-> TRUE]

ParkedDist ==
    /\ chStatus = [c \in DChans |-> "enabled"]
    /\ snapshot = <<>>
    /\ dbreakers = [c \in DChans |-> "closed"]
    /\ dhealth = [c \in DChans |-> 0]
    /\ dlast = NoDispatch
    /\ dcount = 0

SChans == 1..5
NoSelect == [called |-> FALSE, channels |-> <<>>, ignoreFirstPriority |-> FALSE,
             candidates |-> <<>>, idx1 |-> 0, idx2 |-> 0, channel |-> 0]

ParkedSelector ==
    /\ selHealth = <<>>
    /\ selCount = 0
    /\ selOut = NoSelect

LProcs == {"g1", "g2"}
LKeys == {"k1", "k2"}
NoLimiterCall == [active |-> FALSE, key |-> "k1", now |-> 0, at |-> 0, info |-> FALSE]
NoEntry == [exists |-> FALSE, timestamps |-> <<>>, lastAccess |-> 0]

ParkedLimiterState ==
    /\ lclock = 0
    /\ lsettings = [limit |-> 0, duration |-> 0, expiration |-> 0]
    /\ lstore = [k \in LKeys |-> NoEntry]
    /\ lcall = [p \in LProcs |-> NoLimiterCall]
    /\ lcount = 0
    /\ ljumps = 0
    /\ lhist = [k \in LKeys |-> <<>>]

ParkedLimiter ==
    /\ RedisEnabled = FALSE
    /\ ParkedLimiterState

CModels == {"gpt-4o", "gpt-4o-mini"}
CMessages == {"m1", "m2"}
NoData == [present |-> FALSE, data |-> <<>>, expires |-> 0]
NoStore == [stored |-> FALSE, payload |-> <<>>, at |-> 0]
NoLookup == [called |-> FALSE, model |-> "", messages |-> "", at |-> 0,
             prior |-> NoStore, found |-> FALSE, content |-> <<>>]

NoSemLookup == [called |-> FALSE, model |-> <<>>, exact |-> <<>>, found |-> FALSE,
                response |-> 0]

NoEviction == [stored |-> FALSE, size |-> 0, evicted |-> {}, kept |-> {}]

ParkedSemantic ==
    /\ sclock = 0
    /\ sc = [enabled |-> FALSE, threshold |-> 0, maxSize |-> 0]
    /\ vectors = <<>>
    /\ sops = 0
    /\ sunder = <<>>
    /\ slookup = NoSemLookup
    /\ sevict = NoEviction

ParkedBatcher ==
    /\ lbuffer = <<>>
    /\ lbmaxSize = 0
    /\ lbstarted = FALSE
    /\ lbdone = FALSE
    /\ lbnext = 0
    /\ lbpending = 0
    /\ lbinflight = {}
    /\ lbloop = "none"
    /\ lbstop = "idle"
    /\ lbstore = <<>>
    /\ lbhanded = {}
    /\ lbbefore = 0
    /\ lbfailed = {}

ParkedRetry ==
    /\ rbconfig = [MaxRetries |-> 0, shouldRetryNil |-> TRUE]
    /\ rbattempt = 0
    /\ rbpc = "returned"
    /\ rbresult = "none"
    /\ rbcalls = <<>>

NoDistribute ==
    [called |-> FALSE, specificPresent |-> FALSE, specific |-> "", statusThen |-> "none",
     requestModel |-> "", resolverRan |-> FALSE, resolveErr |-> FALSE,
     selectorRan |-> FALSE, selectorModel |-> "", headers |-> FALSE, code |-> "none",
     channel |-> 0, setupModel |-> ""]

ParkedDistribute ==
    /\ dxStatus = <<>>
    /\ dxModels = <<>>
    /\ dxCache = <<>>
    /\ resolverEnabled = FALSE
    /\ dxLast = NoDistribute
    /\ dxCount = 0

NoResolve == [called |-> FALSE, err |-> FALSE, SelectedModel |-> "", ChannelID |-> 0,
              Score |-> 0]

ParkedResolve ==
    /\ avStore = <<>>
    /\ avHealth = <<>>
    /\ avReq = [virtualModel |-> "", group |-> "", language |-> ""]
    /\ avResult = NoResolve

ParkedQuota ==
    /\ qenabled = FALSE
    /\ qkey = [exists |-> FALSE, val |-> 0]
    /\ qinitial = [exists |-> FALSE, val |-> 0]
    /\ qcall = <<>>
    /\ qcalls = 0
    /\ qhist = <<>>

ParkedStream ==
    /\ stLines = 0
    /\ stRead = 0
    /\ stBuffered = 0
    /\ stDelivered = 0
    /\ stConnected = TRUE
    /\ stPc = "none"
    /\ stStore = -1

ParkedHits ==
    /\ htCount = 0
    /\ htPc = <<>>
    /\ htLocal = <<>>
    /\ htWriter = FALSE
    /\ htHits = 0
    /\ htSeen = [stores |-> 0, midUpdate |-> FALSE]

ParkedStats ==
    /\ hsPc = "idle"
    /\ hsNested = 0
    /\ hsReaders = 0
    /\ hsW = <<>>
    /\ hsCalls = [stats |-> 0, records |-> 0]

ParkedMetrics ==
    /\ cmHits = 0
    /\ cmMisses = 0
    /\ cmPc = [r \in MReqs |-> "idle"]
    /\ cmLookups = 0

ParkedWindow ==
    /\ wclock = 0
    /\ wmax = 0
    /\ wzset = {}
    /\ wcall = <<>>
    /\ wcalls = 0
    /\ whist = <<>>

ParkedCache ==
    /\ cclock = 0
    /\ rc = [enabled |-> FALSE, ttl |-> 0]
    /\ kv = <<>>
    /\ ctasks = {}
    /\ cops = 0
    /\ cstored = <<>>
    /\ clookup = NoLookup
    /\ creqs = <<>>

ParkedBreaker ==
    /\ settings = [MaxFailures |-> 5, FailureRatio |-> <<1, 2>>, MinSamples |-> 10,
                   Timeout |-> 30, HalfOpenMaxRequests |-> 3, SuccessThreshold |-> 2]
    /\ cb = [state |-> "closed",
             counts |-> [Requests |-> 0, TotalSuccesses |-> 0, TotalFailures |-> 0,
                         ConsecutiveSuccesses |-> 0, ConsecutiveFailures |-> 0],
             lastStateChange |-> 0, halfOpenCount |-> 0]
    /\ mu = "free"
    /\ now = 0
    /\ apc = [p \in {"p1", "p2"} |-> "idle"]
    /\ alc = [p \in {"p1", "p2"} |-> 0]
    /\ inflight = [k \in {"closed", "probe", "stale"} |-> 0]
    /\ fresh = TRUE
    /\ hoSuccesses = 0
    /\ last = [op |-> "other", from |-> "none"]

(***************************************************************************)
(* Circuit breaker: types and pure helpers.                                *)
(***************************************************************************)
StateClosed == "closed"
StateHalfOpen == "half-open"
StateOpen == "open"

\* Settings after New() has replaced the non-positive fields by the defaults.
\* FailureRatio is the pair <<numerator, denominator>>; <<0, 1>> is "not set".
SettingsSet ==
    { [MaxFailures |-> 3, FailureRatio |-> <<1, 2>>, MinSamples |-> 4,
       Timeout |-> 2, HalfOpenMaxRequests |-> 1, SuccessThreshold |-> 2],
      [MaxFailures |-> 2, FailureRatio |-> <<0, 1>>, MinSamples |-> 0,
       Timeout |-> 2, HalfOpenMaxRequests |-> 2, SuccessThreshold |-> 2],
      [MaxFailures |-> 2, FailureRatio |-> <<1, 2>>, MinSamples |-> 3,
       Timeout |-> 1, HalfOpenMaxRequests |-> 2, SuccessThreshold |-> 1] }

ZeroCounts ==
    [Requests |-> 0, TotalSuccesses |-> 0, TotalFailures |-> 0,
     ConsecutiveSuccesses |-> 0, ConsecutiveFailures |-> 0]

\* New(settings)
New(t) ==
    [state |-> StateClosed, counts |-> ZeroCounts, lastStateChange |-> t,
     halfOpenCount |-> 0]

\* shouldOpen with an off-by-one in the consecutive-failure test
shouldOpenStrict(s, c) ==
    \/ c.ConsecutiveFailures > s.MaxFailures
    \/ /\ s.FailureRatio[1] > 0
       /\ c.Requests >= s.MinSamples
       /\ c.TotalFailures * s.FailureRatio[2] >= s.FailureRatio[1] * c.Requests

\* shouldOpen: consecutive failures, or the failure ratio once enough samples
shouldOpen(s, c) ==
    \/ c.ConsecutiveFailures >= s.MaxFailures
    \/ /\ s.FailureRatio[1] > 0
       /\ c.Requests >= s.MinSamples
       /\ c.TotalFailures * s.FailureRatio[2] >= s.FailureRatio[1] * c.Requests

\* transitionToLocked that forgets to clear the counters when closing
transitionToLockedKeepCounts(b, newState, t) ==
    IF b.state = newState
    THEN b
    ELSE [b EXCEPT !.state = newState, !.lastStateChange = t]

\* transitionToLocked for a target other than half-open (the half-open counter
\* reset of the half-open target is the step AllowResetHalfOpen)
transitionToLocked(b, newState, t) ==
    IF b.state = newState
    THEN b
    ELSE [b EXCEPT !.state = newState,
                   !.lastStateChange = t,
                   !.counts = IF newState = StateClosed THEN ZeroCounts ELSE @]

\* body of RecordSuccess under cb.mu
recordSuccess(b, s, t) ==
    LET c1 == [b.counts EXCEPT !.Requests = @ + 1,
                               !.TotalSuccesses = @ + 1,
                               !.ConsecutiveSuccesses = @ + 1,
                               !.ConsecutiveFailures = 0]
        b1 == [b EXCEPT !.counts = c1]
    IN  IF b.state = StateHalfOpen
        THEN LET b2 == [b1 EXCEPT !.halfOpenCount = @ - 1]
             IN  IF c1.ConsecutiveSuccesses >= s.SuccessThreshold
                 THEN transitionToLocked(b2, StateClosed, t)
                 ELSE b2
        ELSE b1

\* RecordFailure that applies shouldOpen in the half-open state too
recordFailureLenient(b, s, t) ==
    LET c1 == [b.counts EXCEPT !.Requests = @ + 1,
                               !.TotalFailures = @ + 1,
                               !.ConsecutiveFailures = @ + 1,
                               !.ConsecutiveSuccesses = 0]
        b1 == [b EXCEPT !.counts = c1]
    IN  CASE b.state = StateClosed ->
                IF shouldOpen(s, c1) THEN transitionToLocked(b1, StateOpen, t) ELSE b1
          [] b.state = StateHalfOpen ->
                IF shouldOpen(s, c1)
                THEN transitionToLocked([b1 EXCEPT !.halfOpenCount = @ - 1], StateOpen, t)
                ELSE [b1 EXCEPT !.halfOpenCount = @ - 1]
          [] OTHER -> b1

\* body of RecordFailure under cb.mu
recordFailure(b, s, t) ==
    LET c1 == [b.counts EXCEPT !.Requests = @ + 1,
                               !.TotalFailures = @ + 1,
                               !.ConsecutiveFailures = @ + 1,
                               !.ConsecutiveSuccesses = 0]
        b1 == [b EXCEPT !.counts = c1]
    IN  CASE b.state = StateClosed ->
                IF shouldOpen(s, c1) THEN transitionToLocked(b1, StateOpen, t) ELSE b1
          [] b.state = StateHalfOpen ->
                transitionToLocked([b1 EXCEPT !.halfOpenCount = @ - 1], StateOpen, t)
          [] OTHER -> b1

(***************************************************************************)
(* Circuit breaker: the operations as steps of concurrent goroutines.      *)
(***************************************************************************)
InflightKinds == {"closed", "probe", "stale"}
InflightTotal == inflight["closed"] + inflight["probe"] + inflight["stale"]
InAllow == {p \in Procs : apc[p] # "idle"}
Other == [op |-> "other", from |-> "none"]

InitCB ==
    /\ ParkedMetrics
    /\ ParkedStats
    /\ ParkedHits
    /\ ParkedStream
    /\ ParkedQuota
    /\ ParkedResolve
    /\ ParkedWindow
    /\ ParkedDistribute
    /\ ParkedRetry
    /\ ParkedBatcher
    /\ ParkedSemantic
    /\ ParkedCache
    /\ ParkedLimiter
    /\ ParkedSelector
    /\ ParkedDist
    /\ ParkedHealth
    /\ ParkedRelay
    /\ settings \in SettingsSet
    /\ now = 0
    /\ cb = New(0)
    /\ mu = "free"
    /\ apc = [p \in Procs |-> "idle"]
    /\ alc = [p \in Procs |-> 0]
    /\ inflight = [k \in InflightKinds |-> 0]
    /\ fresh = TRUE
    /\ hoSuccesses = 0
    /\ last = Other

\* time passes
Tick ==
    /\ now < MaxTime
    /\ now' = now + 1
    /\ last' = Other
    /\ UNCHANGED <<settings, cb, mu, apc, alc, inflight, fresh, hoSuccesses>>
    /\ UNCHANGED notBreaker

\* Allow(): state := cb.State() and the switch on it
AllowStart(p) ==
    /\ apc[p] = "idle"
    /\ Cardinality(InAllow) + InflightTotal < MaxInflight
    /\ CASE cb.state = StateClosed ->
              /\ inflight' = [inflight EXCEPT !["closed"] = @ + 1]
              /\ UNCHANGED <<apc, fresh>>
         [] cb.state = StateOpen ->
              /\ apc' = [apc EXCEPT ![p] = "lastChange"]
              /\ fresh' = FALSE
              /\ UNCHANGED inflight
         [] OTHER ->
              /\ apc' = [apc EXCEPT ![p] = "add"]
              /\ fresh' = FALSE
              /\ UNCHANGED inflight
    /\ last' = Other
    /\ UNCHANGED <<settings, cb, mu, now, alc, hoSuccesses>>
    /\ UNCHANGED notBreaker

\* Allow(), StateOpen: lastChange := cb.lastStateChange under the read lock
AllowReadLastChange(p) ==
    /\ apc[p] = "lastChange"
    /\ mu = "free"
    /\ alc' = [alc EXCEPT ![p] = cb.lastStateChange]
    /\ apc' = [apc EXCEPT ![p] = "since"]
    /\ last' = Other
    /\ UNCHANGED <<settings, cb, mu, now, inflight, fresh, hoSuccesses>>
    /\ UNCHANGED notBreaker

\* Allow(), StateOpen: time.Since(lastChange) >= Timeout, else ErrCircuitOpen
AllowSince(p) ==
    /\ apc[p] = "since"
    /\ apc' = [apc EXCEPT ![p] = IF now - alc[p] >= settings.Timeout
                                 THEN "transition" ELSE "idle"]
    /\ alc' = [alc EXCEPT ![p] = 0]
    /\ last' = Other
    /\ UNCHANGED <<settings, cb, mu, now, inflight, fresh, hoSuccesses>>
    /\ UNCHANGED notBreaker

\* Allow(), StateOpen: transitionTo(StateHalfOpen) takes cb.mu and stores the
\* state and lastStateChange; an unchanged state returns at once
AllowTransition(p) ==
    /\ apc[p] = "transition"
    /\ mu = "free"
    /\ IF cb.state = StateHalfOpen
       THEN /\ apc' = [apc EXCEPT ![p] = "add"]
            /\ UNCHANGED <<cb, mu, inflight, hoSuccesses>>
       ELSE /\ cb' = [cb EXCEPT !.state = StateHalfOpen, !.lastStateChange = now]
            /\ mu' = p
            /\ apc' = [apc EXCEPT ![p] = "reset"]
            /\ inflight' = [inflight EXCEPT !["probe"] = 0,
                                            !["stale"] = @ + inflight["probe"]]
            /\ hoSuccesses' = 0
    /\ last' = Other
    /\ UNCHANGED <<settings, now, alc, fresh>>
    /\ UNCHANGED notBreaker

\* transitionToLocked, newState = half-open: halfOpenCount := 0, then unlock
AllowResetHalfOpen(p) ==
    /\ apc[p] = "reset"
    /\ mu = p
    /\ cb' = [cb EXCEPT !.halfOpenCount = 0]
    /\ mu' = "free"
    /\ apc' = [apc EXCEPT ![p] = "add"]
    /\ last' = Other
    /\ UNCHANGED <<settings, now, alc, inflight, fresh, hoSuccesses>>
    /\ UNCHANGED notBreaker

\* allowHalfOpen: count := atomic add 1; admitted unless count > HalfOpenMaxRequests
AllowHalfOpenAdd(p) ==
    /\ apc[p] = "add"
    /\ cb' = [cb EXCEPT !.halfOpenCount = @ + 1]
    /\ IF cb.halfOpenCount + 1 > settings.HalfOpenMaxRequests
       THEN /\ apc' = [apc EXCEPT ![p] = "sub"]
            /\ UNCHANGED inflight
       ELSE /\ apc' = [apc EXCEPT ![p] = "idle"]
            /\ inflight' = IF cb.state = StateHalfOpen
                           THEN [inflight EXCEPT !["probe"] = @ + 1]
                           ELSE [inflight EXCEPT !["stale"] = @ + 1]
    /\ last' = Other
    /\ UNCHANGED <<settings, mu, now, alc, fresh, hoSuccesses>>
    /\ UNCHANGED notBreaker

\* allowHalfOpen: atomic add -1 and ErrTooManyRequests
AllowHalfOpenSub(p) ==
    /\ apc[p] = "sub"
    /\ cb' = [cb EXCEPT !.halfOpenCount = @ - 1]
    /\ apc' = [apc EXCEPT ![p] = "idle"]
    /\ last' = Other
    /\ UNCHANGED <<settings, mu, now, alc, inflight, fresh, hoSuccesses>>
    /\ UNCHANGED notBreaker

\* RecordSuccess() for an admitted request of kind k
RecordSuccess(k) ==
    /\ mu = "free"
    /\ inflight[k] > 0
    /\ cb.counts.Requests < MaxRequests
    /\ cb' = recordSuccess(cb, settings, now)
    /\ inflight' = [inflight EXCEPT ![k] = @ - 1]
    /\ fresh' = FALSE
    /\ hoSuccesses' = IF cb.state = StateHalfOpen THEN hoSuccesses + 1 ELSE hoSuccesses
    /\ last' = [op |-> "RecordSuccess", from |-> cb.state]
    /\ UNCHANGED <<settings, mu, now, apc, alc>>
    /\ UNCHANGED notBreaker

\* RecordFailure() for an admitted request of kind k
RecordFailure(k) ==
    /\ mu = "free"
    /\ inflight[k] > 0
    /\ cb.counts.Requests < MaxRequests
    /\ cb' = recordFailure(cb, settings, now)
    /\ inflight' = [inflight EXCEPT ![k] = @ - 1]
    /\ last' = [op |-> "RecordFailure", from |-> cb.state]
    /\ UNCHANGED <<settings, mu, now, apc, alc, fresh, hoSuccesses>>
    /\ UNCHANGED notBreaker

\* Reset(): state, counts and lastStateChange under cb.mu
Reset ==
    /\ mu = "free"
    /\ cb' = [cb EXCEPT !.state = StateClosed, !.counts = ZeroCounts,
                        !.lastStateChange = now]
    /\ mu' = "reset"
    /\ fresh' = FALSE
    /\ last' = [op |-> "Reset", from |-> cb.state]
    /\ UNCHANGED <<settings, now, apc, alc, inflight, hoSuccesses>>
    /\ UNCHANGED notBreaker

\* Reset(): halfOpenCount := 0, then unlock
ResetHalfOpenCount ==
    /\ mu = "reset"
    /\ cb' = [cb EXCEPT !.halfOpenCount = 0]
    /\ mu' = "free"
    /\ last' = Other
    /\ UNCHANGED <<settings, now, apc, alc, inflight, fresh, hoSuccesses>>
    /\ UNCHANGED notBreaker

\* concurrent Allow / RecordSuccess / RecordFailure callers
NextBreaker ==
    \/ Tick
    \/ \E p \in Procs : AllowStart(p)
    \/ \E p \in Procs : AllowReadLastChange(p)
    \/ \E p \in Procs : AllowSince(p)
    \/ \E p \in Procs : AllowTransition(p)
    \/ \E p \in Procs : AllowResetHalfOpen(p)
    \/ \E p \in Procs : AllowHalfOpenAdd(p)
    \/ \E p \in Procs : AllowHalfOpenSub(p)
    \/ \E k \in InflightKinds : RecordSuccess(k)
    \/ \E k \in InflightKinds : RecordFailure(k)

SpecBreaker == InitCB /\ [][NextBreaker]_vars

\* the same callers and an operator calling Reset()
NextBreakerReset ==
    \/ NextBreaker
    \/ Reset
    \/ ResetHalfOpenCount

SpecBreakerReset == InitCB /\ [][NextBreakerReset]_vars

(***************************************************************************)
(* Circuit breaker: properties.                                            *)
(***************************************************************************)
FailedWhile(st) == last.op = "RecordFailure" /\ last.from = st
SucceededWhile(st) == last.op = "RecordSuccess" /\ last.from = st

\* the opening condition as the state table words it
TableOpenCondition(s, c) ==
    \/ c.ConsecutiveFailures >= s.MaxFailures
    \/ /\ c.Requests >= s.MinSamples
       /\ c.TotalFailures * s.FailureRatio[2] >= s.FailureRatio[1] * c.Requests

\* the opening condition with the ratio rule applying only to a set FailureRatio
SetRatioOpenCondition(s, c) ==
    \/ c.ConsecutiveFailures >= s.MaxFailures
    \/ /\ s.FailureRatio[1] > 0
       /\ c.Requests >= s.MinSamples
       /\ c.TotalFailures * s.FailureRatio[2] >= s.FailureRatio[1] * c.Requests

\* C3 as stated: a RecordFailure() found CLOSED opens the breaker iff consecutive
\* failures >= MaxFailures or (requests >= MinSamples and failures/requests >=
\* FailureRatio), whatever the FailureRatio
C3_OpensIffTableCondition ==
    FailedWhile(StateClosed) =>
        (cb.state = StateOpen <=> TableOpenCondition(settings, cb.counts))

\* C3 amended: a RecordFailure() found CLOSED opens the breaker iff consecutive
\* failures >= MaxFailures or (FailureRatio > 0 and requests >= MinSamples and
\* failures/requests >= FailureRatio); from a fresh breaker MaxFailures failures in
\* a row leave it OPEN and fewer, below the ratio rule's reach, leave it CLOSED
C3_OpensIffSetRatioCondition ==
    /\ FailedWhile(StateClosed) =>
         (cb.state = StateOpen <=> SetRatioOpenCondition(settings, cb.counts))
    /\ (fresh /\ cb.counts.TotalFailures >= settings.MaxFailures) =>
         cb.state = StateOpen
    /\ ( /\ fresh
         /\ cb.counts.TotalFailures < settings.MaxFailures
         /\ \/ settings.FailureRatio[1] = 0
            \/ cb.counts.TotalFailures < settings.MinSamples ) =>
         cb.state = StateClosed

\* a failure found CLOSED has opened the breaker through the ratio rule alone
C3_OpenedByRatio ==
    /\ FailedWhile(StateClosed)
    /\ cb.state = StateOpen
    /\ cb.counts.ConsecutiveFailures < settings.MaxFailures

\* C4: the breaker leaves OPEN only in a step taken at least Timeout after it
\* last entered OPEN
C4_LeavesOpenOnlyAfterTimeout ==
    [][(cb.state = StateOpen /\ cb'.state # StateOpen) =>
           now - cb.lastStateChange >= settings.Timeout]_vars

\* C5: a RecordSuccess() closes a HALF_OPEN breaker only when SuccessThreshold
\* successes have been recorded in that half-open period
C5_ClosesOnlyAfterThreshold ==
    (SucceededWhile(StateHalfOpen) /\ cb.state = StateClosed) =>
        hoSuccesses >= settings.SuccessThreshold

\* C6: while HALF_OPEN, the probes admitted in this half-open period and not yet
\* recorded never number more than HalfOpenMaxRequests
C6_ProbesBounded ==
    cb.state = StateHalfOpen => inflight["probe"] <= settings.HalfOpenMaxRequests

\* the Allow() calls that have added their permit and are about to take it back
RejectedPermits == {p \in DOMAIN apc : apc[p] = "sub"}

\* C39: halfOpenCount is never negative and, while the breaker is HALF_OPEN and
\* no transition is under way, equals the probes admitted in this half-open
\* period and not yet recorded (plus the permits a refused Allow() is about to
\* give back)
C39_PermitCounterExact ==
    /\ cb.halfOpenCount >= 0
    /\ (cb.state = StateHalfOpen /\ mu = "free") =>
            cb.halfOpenCount = inflight["probe"] + Cardinality(RejectedPermits)

\* C7: a RecordFailure() that finds the breaker HALF_OPEN leaves it OPEN
C7_HalfOpenFailureOpens ==
    FailedWhile(StateHalfOpen) => cb.state = StateOpen

\* a failure has reopened a half-open breaker after a success in the same period
C7_FailureAfterSuccess ==
    /\ FailedWhile(StateHalfOpen)
    /\ hoSuccesses >= 1
    /\ cb.state = StateOpen

\* C8: every step that enters CLOSED leaves all five counters at zero
C8_ClosedEntryZeroesCounts ==
    [][(cb.state # StateClosed /\ cb'.state = StateClosed) =>
           cb'.counts = ZeroCounts]_vars

\* the success threshold has just closed a half-open breaker
C8_ClosedByThreshold ==
    /\ SucceededWhile(StateHalfOpen)
    /\ cb.state = StateClosed
    /\ hoSuccesses >= 1

(***************************************************************************)
(* Health tracker: ChannelHealth records and the recording calls.          *)
(* LastError / LastSuccess (wall-clock stamps nothing reads back) are left *)
(* out; latencies are in milliseconds.                                     *)
(***************************************************************************)
Latencies == {1, 2}

\* &ChannelHealth{ChannelId: channelId}
NewChannelHealth(c) ==
    [ChannelId |-> c, TotalRequests |-> 0, SuccessCount |-> 0, FailureCount |-> 0,
     TotalLatency |-> 0, LastLatency |-> 0, ConsecutiveFail |-> 0]

\* GetOrCreate's locked part without the second look at the map
getOrCreateLockedNoRecheck(heap, map, c) ==
    [heap |-> Append(heap, NewChannelHealth(c)),
     map |-> [map EXCEPT ![c] = Len(heap) + 1],
     h |-> Len(heap) + 1]

\* GetOrCreate under t.mu.Lock(): look again, create when still absent
getOrCreateLocked(heap, map, c) ==
    IF map[c] # 0
    THEN [heap |-> heap, map |-> map, h |-> map[c]]
    ELSE [heap |-> Append(heap, NewChannelHealth(c)),
          map |-> [map EXCEPT ![c] = Len(heap) + 1],
          h |-> Len(heap) + 1]

\* RecordSuccess that leaves ConsecutiveFail as it is
healthRecordSuccessKeepFail(h, step, latency) ==
    CASE step = "total" -> [h EXCEPT !.TotalRequests = @ + 1]
      [] step = "count" -> [h EXCEPT !.SuccessCount = @ + 1]
      [] OTHER -> [h EXCEPT !.TotalLatency = @ + latency, !.LastLatency = latency]

\* the statements of RecordSuccess under h.mu, in three steps
healthRecordSuccess(h, step, latency) ==
    CASE step = "total" -> [h EXCEPT !.TotalRequests = @ + 1]
      [] step = "count" -> [h EXCEPT !.SuccessCount = @ + 1]
      [] OTHER -> [h EXCEPT !.TotalLatency = @ + latency,
                            !.LastLatency = latency,
                            !.ConsecutiveFail = 0]

\* the statements of RecordFailure under h.mu, in three steps
healthRecordFailure(h, step, latency) ==
    CASE step = "total" -> [h EXCEPT !.TotalRequests = @ + 1]
      [] step = "count" -> [h EXCEPT !.FailureCount = @ + 1]
      [] OTHER -> [h EXCEPT !.TotalLatency = @ + latency,
                            !.LastLatency = latency,
                            !.ConsecutiveFail = @ + 1]

CallsMade == LET n(c) == hcalls[c].success + hcalls[c].failure
             IN  n(1) + n(2)

InitHealth ==
    /\ ParkedMetrics
    /\ ParkedStats
    /\ ParkedHits
    /\ ParkedStream
    /\ ParkedQuota
    /\ ParkedResolve
    /\ ParkedWindow
    /\ ParkedDistribute
    /\ ParkedRetry
    /\ ParkedBatcher
    /\ ParkedSemantic
    /\ ParkedCache
    /\ ParkedLimiter
    /\ ParkedSelector
    /\ ParkedDist
    /\ ParkedBreaker
    /\ ParkedRelay
    /\ ParkedHealth

\* RecordSuccess / RecordFailure is called; GetOrCreate looks the channel up
\* under t.mu.RLock()
HealthCall(p, c, ok, latency) ==
    /\ hpc[p] = "idle"
    /\ CallsMade < MaxCalls
    /\ hcall' = [hcall EXCEPT ![p] = [ch |-> c, ok |-> ok, latency |-> latency]]
    /\ hcalls' = [hcalls EXCEPT ![c] = IF ok THEN [@ EXCEPT !.success = @ + 1]
                                             ELSE [@ EXCEPT !.failure = @ + 1]]
    /\ IF hmap[c] # 0
       THEN /\ href' = [href EXCEPT ![p] = hmap[c]]
            /\ hpc' = [hpc EXCEPT ![p] = "lock"]
       ELSE /\ hpc' = [hpc EXCEPT ![p] = "create"]
            /\ UNCHANGED href
    /\ UNCHANGED <<hheap, hmap, hmu>>
    /\ UNCHANGED notHealth

\* GetOrCreate under t.mu.Lock()
HealthGetOrCreate(p) ==
    /\ hpc[p] = "create"
    /\ LET r == getOrCreateLocked(hheap, hmap, hcall[p].ch)
       IN  /\ hheap' = r.heap
           /\ hmap' = r.map
           /\ href' = [href EXCEPT ![p] = r.h]
           /\ hmu' = IF Len(r.heap) > Len(hmu) THEN Append(hmu, "free") ELSE hmu
    /\ hpc' = [hpc EXCEPT ![p] = "lock"]
    /\ UNCHANGED <<hcall, hcalls>>
    /\ UNCHANGED notHealth

\* h.mu.Lock(); the order of the locks is the order the results are recorded in
HealthLock(p) ==
    /\ hpc[p] = "lock"
    /\ hmu[href[p]] = "free"
    /\ hmu' = [hmu EXCEPT ![href[p]] = p]
    /\ hpc' = [hpc EXCEPT ![p] = "total"]
    /\ hcalls' = [hcalls EXCEPT ![hcall[p].ch].sinceSuccess =
                                    IF hcall[p].ok THEN 0 ELSE @ + 1]
    /\ UNCHANGED <<hheap, hmap, hcall, href>>
    /\ UNCHANGED notHealth

\* one of h.TotalRequests++ and h.SuccessCount++ / h.FailureCount++
HealthCount(p) ==
    /\ hpc[p] \in {"total", "count"}
    /\ hheap' = [hheap EXCEPT ![href[p]] =
                    IF hcall[p].ok
                    THEN healthRecordSuccess(@, hpc[p], hcall[p].latency)
                    ELSE healthRecordFailure(@, hpc[p], hcall[p].latency)]
    /\ hpc' = [hpc EXCEPT ![p] = IF @ = "total" THEN "count" ELSE "tail"]
    /\ UNCHANGED <<hmap, hmu, hcall, href, hcalls>>
    /\ UNCHANGED notHealth

\* the latency fields and ConsecutiveFail, then the deferred h.mu.Unlock()
HealthFinish(p) ==
    /\ hpc[p] = "tail"
    /\ hheap' = [hheap EXCEPT ![href[p]] =
                    IF hcall[p].ok
                    THEN healthRecordSuccess(@, "tail", hcall[p].latency)
                    ELSE healthRecordFailure(@, "tail", hcall[p].latency)]
    /\ hmu' = [hmu EXCEPT ![href[p]] = "free"]
    /\ hpc' = [hpc EXCEPT ![p] = "idle"]
    /\ hcall' = [hcall EXCEPT ![p] = NoCall]
    /\ href' = [href EXCEPT ![p] = 0]
    /\ UNCHANGED <<hmap, hcalls>>
    /\ UNCHANGED notHealth

NextHealth ==
    \/ \E p \in HProcs, c \in HChans, ok \in BOOLEAN, l \in Latencies :
            HealthCall(p, c, ok, l)
    \/ \E p \in HProcs : HealthGetOrCreate(p)
    \/ \E p \in HProcs : HealthLock(p)
    \/ \E p \in HProcs : HealthCount(p)
    \/ \E p \in HProcs : HealthFinish(p)

SpecHealth == InitHealth /\ [][NextHealth]_vars

(***************************************************************************)
(* Health tracker: properties.                                             *)
(***************************************************************************)
\* no recording call on channel c is in progress
HealthQuiet(c) == \A p \in HProcs : hcall[p].ch # c

\* the record the tracker holds for channel c (a fresh one when it holds none)
HealthOf(c) == IF hmap[c] = 0 THEN NewChannelHealth(c) ELSE hheap[hmap[c]]

\* C9: whenever no recording call on a channel is in progress, its SuccessCount
\* and FailureCount equal the numbers of RecordSuccess and RecordFailure calls
\* made for it, and they add up to TotalRequests
C9_CountsMatchCalls ==
    \A c \in HChans :
        HealthQuiet(c) =>
            /\ HealthOf(c).SuccessCount = hcalls[c].success
            /\ HealthOf(c).FailureCount = hcalls[c].failure
            /\ HealthOf(c).SuccessCount + HealthOf(c).FailureCount
                   = HealthOf(c).TotalRequests

\* a channel is quiet after one success and two failures were recorded for it
C9_MixedCallsRecorded ==
    \E c \in HChans :
        /\ HealthQuiet(c)
        /\ hcalls[c].success >= 1
        /\ hcalls[c].failure >= 2
        /\ HealthOf(c).TotalRequests = hcalls[c].success + hcalls[c].failure

\* C10: with no recording call in progress on a channel, its ConsecutiveFail is
\* the number of failures recorded since its most recent success (0 right after
\* a success)
C10_ConsecutiveFailSinceSuccess ==
    \A c \in HChans :
        HealthQuiet(c) => HealthOf(c).ConsecutiveFail = hcalls[c].sinceSuccess

\* a success has cleared a non-zero ConsecutiveFail and failures followed it
C10_FailuresAfterSuccess ==
    \E c \in HChans :
        /\ HealthQuiet(c)
        /\ hcalls[c].success >= 1
        /\ hcalls[c].failure >= 3
        /\ hcalls[c].sinceSuccess = 2
        /\ HealthOf(c).ConsecutiveFail = 2

(***************************************************************************)
(* Text relay: RelayTextHelper, one step per call that can fail.  The      *)
(* quota helpers (preConsumeQuota, billing.ReturnPreConsumedQuota,         *)
(* postConsumeQuota) live outside the files at hand and follow the         *)
(* specification: pre-consume reserves, the other two run as goroutines.   *)
(***************************************************************************)
InitRelay ==
    /\ ParkedMetrics
    /\ ParkedStats
    /\ ParkedHits
    /\ ParkedStream
    /\ ParkedQuota
    /\ ParkedResolve
    /\ ParkedWindow
    /\ ParkedDistribute
    /\ ParkedRetry
    /\ ParkedBatcher
    /\ ParkedSemantic
    /\ ParkedCache
    /\ ParkedLimiter
    /\ ParkedSelector
    /\ ParkedDist
    /\ ParkedBreaker
    /\ ParkedHealth
    /\ ResponseCacheEnabled \in BOOLEAN
    /\ tokenQuota \in 0..MaxQuota
    /\ rpc = [r \in Reqs |-> "idle"]
    /\ IsStream = [r \in Reqs |-> FALSE]
    /\ preConsumedQuota = [r \in Reqs |-> 0]
    /\ rtask = [r \in Reqs |-> NoTask]
    /\ rresult = [r \in Reqs |-> "none"]
    /\ rnet = [r \in Reqs |-> 0]

\* RelayTextHelper returns: nil ("ok") or an error code
relayReturn(r, code) ==
    /\ rpc' = [rpc EXCEPT ![r] = "done"]
    /\ rresult' = [rresult EXCEPT ![r] = code]

\* preConsumeQuota: reserve amount, or fail when the quota does not cover it
preConsumeQuota(quota, amount) ==
    IF quota < amount
    THEN [ok |-> FALSE, quota |-> quota, preConsumed |-> 0]
    ELSE [ok |-> TRUE, quota |-> quota - amount, preConsumed |-> amount]

\* billing.ReturnPreConsumedQuota: a goroutine that gives the amount back
ReturnPreConsumedQuota(amount) ==
    IF amount # 0 THEN [kind |-> "refund", delta |-> amount] ELSE NoTask

\* go postConsumeQuota: a goroutine that charges usage minus what was pre-consumed
postConsumeQuota(usage, preConsumed) ==
    [kind |-> "post", delta |-> preConsumed - usage]

\* getAndValidateTextRequest and the cache check before the LLM call
RelayStart(r, valid, stream, found, replayed) ==
    /\ rpc[r] = "idle"
    /\ IsStream' = [IsStream EXCEPT ![r] = valid /\ stream]
    /\ IF ~valid
       THEN relayReturn(r, "invalid_text_request")
       ELSE IF ResponseCacheEnabled /\ found /\ (~stream \/ replayed)
            THEN relayReturn(r, "ok_cached")
            ELSE /\ rpc' = [rpc EXCEPT ![r] = "preConsume"]
                 /\ UNCHANGED rresult
    /\ UNCHANGED <<ResponseCacheEnabled, tokenQuota, preConsumedQuota, rtask, rnet>>
    /\ UNCHANGED notRelay

\* preConsumedQuota, bizErr := preConsumeQuota(...)
RelayPreConsume(r, amount) ==
    /\ rpc[r] = "preConsume"
    /\ LET res == preConsumeQuota(tokenQuota, amount)
       IN  /\ tokenQuota' = res.quota
           /\ preConsumedQuota' = [preConsumedQuota EXCEPT ![r] = res.preConsumed]
           /\ rnet' = [rnet EXCEPT ![r] = @ - res.preConsumed]
           /\ IF res.ok
              THEN /\ rpc' = [rpc EXCEPT ![r] = "adaptor"]
                   /\ UNCHANGED rresult
              ELSE relayReturn(r, "pre_consume_failed")
    /\ UNCHANGED <<ResponseCacheEnabled, IsStream, rtask>>
    /\ UNCHANGED notRelay

\* relay.GetAdaptor(meta.APIType): nil returns invalid_api_type
RelayGetAdaptor(r, ok) ==
    /\ rpc[r] = "adaptor"
    /\ IF ok
       THEN /\ rpc' = [rpc EXCEPT ![r] = "body"]
            /\ UNCHANGED rresult
       ELSE relayReturn(r, "invalid_api_type")
    /\ UNCHANGED <<ResponseCacheEnabled, tokenQuota, IsStream, preConsumedQuota,
                   rtask, rnet>>
    /\ UNCHANGED notRelay

\* getRequestBody: an error returns convert_request_failed
RelayGetRequestBody(r, ok) ==
    /\ rpc[r] = "body"
    /\ IF ok
       THEN /\ rpc' = [rpc EXCEPT ![r] = "doRequest"]
            /\ UNCHANGED rresult
       ELSE relayReturn(r, "convert_request_failed")
    /\ UNCHANGED <<ResponseCacheEnabled, tokenQuota, IsStream, preConsumedQuota,
                   rtask, rnet>>
    /\ UNCHANGED notRelay

\* adaptor.DoRequest: an error returns do_request_failed
RelayDoRequest(r, ok) ==
    /\ rpc[r] = "doRequest"
    /\ IF ok
       THEN /\ rpc' = [rpc EXCEPT ![r] = "status"]
            /\ UNCHANGED rresult
       ELSE relayReturn(r, "do_request_failed")
    /\ UNCHANGED <<ResponseCacheEnabled, tokenQuota, IsStream, preConsumedQuota,
                   rtask, rnet>>
    /\ UNCHANGED notRelay

\* isErrorHappened(meta, resp): refund and return the upstream error
RelayCheckStatus(r, errorHappened) ==
    /\ rpc[r] = "status"
    /\ IF errorHappened
       THEN /\ rtask' = [rtask EXCEPT ![r] = ReturnPreConsumedQuota(preConsumedQuota[r])]
            /\ relayReturn(r, "upstream_error")
       ELSE /\ rpc' = [rpc EXCEPT ![r] = "response"]
            /\ UNCHANGED <<rtask, rresult>>
    /\ UNCHANGED <<ResponseCacheEnabled, tokenQuota, IsStream, preConsumedQuota, rnet>>
    /\ UNCHANGED notRelay

\* CaptureAndCacheStream (cache enabled and streaming) or adaptor.DoResponse;
\* an error refunds and returns, success starts postConsumeQuota
RelayDoResponse(r, ok, usage) ==
    /\ rpc[r] = "response"
    /\ IF ok
       THEN /\ rtask' = [rtask EXCEPT ![r] = postConsumeQuota(usage, preConsumedQuota[r])]
            /\ relayReturn(r, "ok")
       ELSE /\ rtask' = [rtask EXCEPT ![r] = ReturnPreConsumedQuota(preConsumedQuota[r])]
            /\ relayReturn(r, IF ResponseCacheEnabled /\ IsStream[r]
                              THEN "stream_capture_failed" ELSE "response_error")
    /\ UNCHANGED <<ResponseCacheEnabled, tokenQuota, IsStream, preConsumedQuota, rnet>>
    /\ UNCHANGED notRelay

\* the refund or post-consume goroutine of request r updates the token quota
RelayQuotaTask(r) ==
    /\ rtask[r] # NoTask
    /\ tokenQuota' = tokenQuota + rtask[r].delta
    /\ rnet' = [rnet EXCEPT ![r] = @ + rtask[r].delta]
    /\ rtask' = [rtask EXCEPT ![r] = [kind |-> "done_" \o rtask[r].kind, delta |-> 0]]
    /\ rtask[r].kind \in {"refund", "post"}
    /\ UNCHANGED <<ResponseCacheEnabled, rpc, IsStream, preConsumedQuota, rresult>>
    /\ UNCHANGED notRelay

NextRelay ==
    \/ \E r \in Reqs, valid, stream, found, replayed \in BOOLEAN :
            RelayStart(r, valid, stream, found, replayed)
    \/ \E r \in Reqs, amount \in 1..MaxCost : RelayPreConsume(r, amount)
    \/ \E r \in Reqs, ok \in BOOLEAN : RelayGetAdaptor(r, ok)
    \/ \E r \in Reqs, ok \in BOOLEAN : RelayGetRequestBody(r, ok)
    \/ \E r \in Reqs, ok \in BOOLEAN : RelayDoRequest(r, ok)
    \/ \E r \in Reqs, e \in BOOLEAN : RelayCheckStatus(r, e)
    \/ \E r \in Reqs, ok \in BOOLEAN, usage \in 0..MaxCost : RelayDoResponse(r, ok, usage)
    \/ \E r \in Reqs : RelayQuotaTask(r)

SpecRelay == InitRelay /\ [][NextRelay]_vars

(***************************************************************************)
(* Text relay: properties.                                                 *)
(***************************************************************************)
\* the error codes RelayTextHelper can return once the pre-consume succeeded
FailedAfterPreConsume ==
    {"invalid_api_type", "convert_request_failed", "do_request_failed",
     "upstream_error", "stream_capture_failed", "response_error"}

\* request r has returned and no quota goroutine of it is still to run
Settled(r) == rpc[r] = "done" /\ rtask[r].kind \notin {"refund", "post"}

\* C1: a request that failed after its pre-consume succeeded has, once its quota
\* goroutine ran, given back what it pre-consumed: its net effect on the token
\* quota is zero
C1_FailureRefundsPreConsumed ==
    \A r \in Reqs :
        (Settled(r) /\ rresult[r] \in FailedAfterPreConsume) => rnet[r] = 0

\* the settlements request r has started: the refund of the pre-consumed quota
\* and the post-consume reconciliation
Settlements(r) ==
    {k \in {"refund", "post"} : rtask[r].kind \in {k, "done_" \o k}}

\* C38: a request that has returned after its pre-consume succeeded has started
\* exactly one settlement: the refund when it failed, the post-consume
\* reconciliation when it succeeded
C38_ExactlyOneSettlement ==
    \A r \in Reqs :
        (rpc[r] = "done" /\ preConsumedQuota[r] > 0) =>
            Settlements(r) = IF rresult[r] = "ok" THEN {"post"} ELSE {"refund"}

\* a request that returned nil has started the post-consume reconciliation and
\* no refund
SuccessStartsPostConsume ==
    \A r \in Reqs :
        (rpc[r] = "done" /\ rresult[r] = "ok") => Settlements(r) = {"post"}

(***************************************************************************)
(* Channel selection: scores as fractions <<numerator, denominator>>.      *)
(***************************************************************************)
\* Channel.Priority and Channel.Weight of the channels, by channel id
channelPriority == <<1, 1, 0, 1, -1>>
channelWeight == <<1, 2, 1, 0, 1>>

\* a >= b for two fractions with positive denominators
ScoreGE(a, b) == a[1] * b[2] >= b[1] * a[2]

\* ChannelHealth.AvgLatency in whole milliseconds, at least 1 as Score takes it
avgLatencyMs(h) ==
    LET avg == IF h.TotalRequests = 0 THEN 100 ELSE h.TotalLatency \div h.TotalRequests
    IN  IF avg < 1 THEN 1 ELSE avg

\* ChannelHealth.Score(weight) = successRate * weight * failPenalty * 1000 / avgLatencyMs
Score(h, weight) ==
    IF h.TotalRequests = 0
    THEN <<weight * 1000, (1 + h.ConsecutiveFail) * avgLatencyMs(h)>>
    ELSE <<h.SuccessCount * weight * 1000,
           h.TotalRequests * (1 + h.ConsecutiveFail) * avgLatencyMs(h)>>

\* getChannelScore: weight * 1000 without health data, else health.Score(weight);
\* health is a tracker in which TotalRequests = 0 stands for "no record"
getChannelScore(c, health) ==
    LET weight == IF channelWeight[c] <= 0 THEN 1 ELSE channelWeight[c]
    IN  IF health[c].TotalRequests = 0
        THEN <<weight * 1000, 1>>
        ELSE Score(health[c], weight)

\* betterChannel with the tie going to the second argument
betterChannelSecondOnTie(a, b, health) ==
    IF ScoreGE(getChannelScore(b, health), getChannelScore(a, health)) THEN b ELSE a

\* betterChannel: a unless b scores strictly higher
betterChannel(a, b, health) ==
    IF ScoreGE(getChannelScore(a, health), getChannelScore(b, health)) THEN a ELSE b

\* the values rand.Intn(n) and rand.Intn(n - 1) can take in SelectChannel; the
\* generator is not called for fewer than three channels
RandPairs(n) == IF n >= 3 THEN (0..(n - 1)) \X (0..(n - 2)) ELSE {<<0, 0>>}

\* SelectChannel for given values r1, r2 of the two rand.Intn calls: the two
\* indices compared (1-based, 0 when there is no sampling) and the channel
\* returned (0 for nil)
SelectChannelAt(channels, r1, r2, health) ==
    LET n == Len(channels)
        idx1 == r1
        idx2 == IF r2 >= idx1 THEN r2 + 1 ELSE r2
    IN  CASE n = 0 -> [idx1 |-> 0, idx2 |-> 0, channel |-> 0]
          [] n = 1 -> [idx1 |-> 0, idx2 |-> 0, channel |-> channels[1]]
          [] n = 2 -> [idx1 |-> 0, idx2 |-> 0,
                       channel |-> betterChannel(channels[1], channels[2], health)]
          [] OTHER -> [idx1 |-> idx1 + 1, idx2 |-> idx2 + 1,
                       channel |-> betterChannel(channels[idx1 + 1], channels[idx2 + 1],
                                                 health)]

\* SelectChannel: the channels it can return (none for an empty list)
SelectChannel(channels, health) ==
    {SelectChannelAt(channels, r[1], r[2], health).channel :
        r \in RandPairs(Len(channels))} \ {0}

\* candidateChannels that is the whole list, whatever the priorities
candidateChannelsNoTier(channels, ignoreFirstPriority) == channels

\* candidateChannels that is the rest of the list whenever ignoreFirstPriority is set
candidateChannelsAlwaysRest(channels, ignoreFirstPriority) ==
    LET firstPriority == channelPriority[channels[1]]
        differ == {i \in 1..Len(channels) : channelPriority[channels[i]] # firstPriority}
        priorityGroupEnd ==
            IF firstPriority > 0 /\ differ # {}
            THEN (CHOOSE i \in differ : \A k \in differ : i <= k) - 1
            ELSE Len(channels)
    IN  IF ignoreFirstPriority
        THEN SubSeq(channels, priorityGroupEnd + 1, Len(channels))
        ELSE SubSeq(channels, 1, priorityGroupEnd)

\* candidateChannels of SelectChannelWithPriority (channels is not empty): the
\* first-priority prefix, or the rest of the list when ignoreFirstPriority is set
\* and there is a rest
candidateChannels(channels, ignoreFirstPriority) ==
    LET firstPriority == channelPriority[channels[1]]
        differ == {i \in 1..Len(channels) : channelPriority[channels[i]] # firstPriority}
        priorityGroupEnd ==
            IF firstPriority > 0 /\ differ # {}
            THEN (CHOOSE i \in differ : \A k \in differ : i <= k) - 1
            ELSE Len(channels)
    IN  IF ignoreFirstPriority /\ priorityGroupEnd < Len(channels)
        THEN SubSeq(channels, priorityGroupEnd + 1, Len(channels))
        ELSE SubSeq(channels, 1, priorityGroupEnd)

\* SelectChannelWithPriority: the channels it can return
SelectChannelWithPriority(channels, ignoreFirstPriority, health) ==
    IF Len(channels) = 0
    THEN {}
    ELSE SelectChannel(candidateChannels(channels, ignoreFirstPriority), health)

\* RecordChannelResult: the whole of RecordSuccess / RecordFailure on one record
RecordChannelResult(h, success, latency) ==
    IF success
    THEN healthRecordSuccess(healthRecordSuccess(healthRecordSuccess(h, "total", latency),
                                                 "count", latency), "tail", latency)
    ELSE healthRecordFailure(healthRecordFailure(healthRecordFailure(h, "total", latency),
                                                 "count", latency), "tail", latency)

(***************************************************************************)
(* Selector: calls of SelectChannelWithPriority on candidate lists sorted  *)
(* by priority, against a tracker that results are recorded in.            *)
(***************************************************************************)
\* the candidate lists: distinct channels in descending order of priority
CandidateLists ==
    {l \in UNION {[1..n -> SChans] : n \in 0..MaxList} :
        /\ \A i, j \in 1..Len(l) : i < j => l[i] # l[j]
        /\ \A i \in 1..(Len(l) - 1) : channelPriority[l[i]] >= channelPriority[l[i + 1]]}

InitSelector ==
    /\ ParkedMetrics
    /\ ParkedStats
    /\ ParkedHits
    /\ ParkedStream
    /\ ParkedQuota
    /\ ParkedResolve
    /\ ParkedWindow
    /\ ParkedDistribute
    /\ ParkedRetry
    /\ ParkedBatcher
    /\ ParkedSemantic
    /\ ParkedCache
    /\ ParkedLimiter
    /\ ParkedBreaker
    /\ ParkedHealth
    /\ ParkedRelay
    /\ ParkedDist
    /\ selHealth = [c \in SChans |-> NewChannelHealth(c)]
    /\ selCount = 0
    /\ selOut = NoSelect

\* RecordChannelResult(channelId, latency, success) on the selector's tracker,
\* between two selector calls
SelectorRecord(c, success, latency) ==
    /\ ~selOut.called
    /\ selCount < MaxSelRecords
    /\ selCount' = selCount + 1
    /\ selHealth' = [selHealth EXCEPT ![c] = RecordChannelResult(@, success, latency)]
    /\ UNCHANGED selOut
    /\ UNCHANGED notSelector

\* SelectChannelWithPriority(channels, ignoreFirstPriority), the two rand.Intn
\* calls returning any of their values
SelectorCall(channels, ignoreFirstPriority) ==
    LET candidates == IF Len(channels) = 0 THEN <<>>
                      ELSE candidateChannels(channels, ignoreFirstPriority)
    IN  /\ ~selOut.called
        /\ \E r \in RandPairs(Len(candidates)) :
              LET at == SelectChannelAt(candidates, r[1], r[2], selHealth)
              IN  selOut' = [called |-> TRUE, channels |-> channels,
                             ignoreFirstPriority |-> ignoreFirstPriority,
                             candidates |-> candidates,
                             idx1 |-> at.idx1, idx2 |-> at.idx2, channel |-> at.channel]
        /\ UNCHANGED <<selHealth, selCount>>
        /\ UNCHANGED notSelector

\* the caller takes the result
SelectorReturn ==
    /\ selOut.called
    /\ selOut' = NoSelect
    /\ UNCHANGED <<selHealth, selCount>>
    /\ UNCHANGED notSelector

NextSelector ==
    \/ \E c \in SChans, success \in BOOLEAN, latency \in Latencies :
          SelectorRecord(c, success, latency)
    \/ \E channels \in CandidateLists, ignoreFirstPriority \in BOOLEAN :
          SelectorCall(channels, ignoreFirstPriority)
    \/ SelectorReturn

SpecSelector == InitSelector /\ [][NextSelector]_vars

(***************************************************************************)
(* Selector: properties.                                                   *)
(***************************************************************************)
\* the channels of a list, and those of them in the first channel's priority tier
ChannelsOf(l) == {l[i] : i \in 1..Len(l)}
FirstTier(l) == {c \in ChannelsOf(l) : channelPriority[c] = channelPriority[l[1]]}

\* C11: a call on a candidate list of exactly one channel returns that channel,
\* whatever the health data and whatever ignoreFirstPriority
C11_SingletonReturned ==
    (selOut.called /\ Len(selOut.channels) = 1) => selOut.channel = selOut.channels[1]

\* a one-channel list was selected from with ignoreFirstPriority set, the channel
\* having failures on record
C11_SingletonIgnoringFirst ==
    /\ selOut.called
    /\ Len(selOut.channels) = 1
    /\ selOut.ignoreFirstPriority
    /\ selHealth[selOut.channels[1]].FailureCount > 0
    /\ selOut.channel = selOut.channels[1]

HigherScoring(a, b) ==
    IF getChannelScore(b, selHealth)[1] * getChannelScore(a, selHealth)[2]
           > getChannelScore(a, selHealth)[1] * getChannelScore(b, selHealth)[2]
    THEN b ELSE a

\* C13: among three or more candidates two different in-range indices are sampled
\* and the higher-scoring of the two sampled channels is returned; of two
\* candidates the higher-scoring is returned; on equal scores the first of the two
\* compared is returned
C13_TwoChoicesHigherScoreWins ==
    selOut.called =>
        LET c == selOut.candidates
            n == Len(c)
        IN  /\ n >= 3 => /\ selOut.idx1 \in 1..n
                         /\ selOut.idx2 \in 1..n
                         /\ selOut.idx1 # selOut.idx2
                         /\ selOut.channel = HigherScoring(c[selOut.idx1], c[selOut.idx2])
            /\ n = 2 => selOut.channel = HigherScoring(c[1], c[2])

\* three candidates were sampled at a later and an earlier index with equal scores
C13_TieBetweenSamples ==
    /\ selOut.called
    /\ Len(selOut.candidates) >= 3
    /\ selOut.idx1 > selOut.idx2
    /\ selHealth[selOut.candidates[selOut.idx1]].TotalRequests > 0
    /\ getChannelScore(selOut.candidates[selOut.idx1], selHealth)[1]
           * getChannelScore(selOut.candidates[selOut.idx2], selHealth)[2]
       = getChannelScore(selOut.candidates[selOut.idx2], selHealth)[1]
           * getChannelScore(selOut.candidates[selOut.idx1], selHealth)[2]
    /\ selOut.channel = selOut.candidates[selOut.idx1]

(***************************************************************************)
(* Sharded in-memory rate limiter (ShardedRateLimiter).  The clock counts  *)
(* ticks of 10 ms; time.Now().Unix() is the whole seconds of it.           *)
(***************************************************************************)
TicksPerSecond == 100

\* time.Now().Unix()
Unix(clock) == clock \div TicksPerSecond

SeqMin(seq, default) ==
    IF Len(seq) = 0 THEN default
    ELSE CHOOSE x \in {seq[i] : i \in 1..Len(seq)} : \A j \in 1..Len(seq) : x <= seq[j]

\* the timestamps of an entry that are inside the window that ends at unixNow (the now of the code)
validTimestamps(timestamps, unixNow, duration) ==
    SelectSeq(timestamps, LAMBDA ts : ts > unixNow - duration)

\* RequestWithInfo that counts remaining before it appends
RequestWithInfoCountFirst(entry, unixNow, maxRequestNum, duration) ==
    LET valid == validTimestamps(entry.timestamps, unixNow, duration)
        resetAt == IF Len(valid) > 0 THEN SeqMin(valid, unixNow) + duration
                   ELSE unixNow + duration
    IN  IF Len(valid) < maxRequestNum
        THEN [entry |-> [exists |-> TRUE, timestamps |-> Append(valid, unixNow),
                         lastAccess |-> unixNow],
              allowed |-> TRUE, remaining |-> maxRequestNum - Len(valid),
              resetAt |-> resetAt]
        ELSE [entry |-> [exists |-> TRUE, timestamps |-> valid, lastAccess |-> unixNow],
              allowed |-> FALSE, remaining |-> 0, resetAt |-> resetAt]

\* the locked body of RequestWithInfo on the key's entry (a missing entry is an
\* empty one): the entry it leaves and the three values it returns.  Request
\* leaves the same entry and returns the same allowed.
RequestWithInfo(entry, unixNow, maxRequestNum, duration) ==
    LET valid == validTimestamps(entry.timestamps, unixNow, duration)
        resetAt == IF Len(valid) > 0 THEN SeqMin(valid, unixNow) + duration
                   ELSE unixNow + duration
    IN  IF Len(valid) < maxRequestNum
        THEN [entry |-> [exists |-> TRUE, timestamps |-> Append(valid, unixNow),
                         lastAccess |-> unixNow],
              allowed |-> TRUE, remaining |-> maxRequestNum - (Len(valid) + 1),
              resetAt |-> resetAt]
        ELSE [entry |-> [exists |-> TRUE, timestamps |-> valid, lastAccess |-> unixNow],
              allowed |-> FALSE, remaining |-> 0, resetAt |-> resetAt]

\* settings of the limiter under concurrent callers; expirationDuration is not
\* shorter than the window
LimiterSettings ==
    {[limit |-> 1, duration |-> 1, expiration |-> 1],
     [limit |-> 2, duration |-> 1, expiration |-> 2],
     [limit |-> 2, duration |-> 2, expiration |-> 2]}

InitLimiter ==
    /\ ParkedMetrics
    /\ ParkedStats
    /\ ParkedHits
    /\ ParkedStream
    /\ ParkedQuota
    /\ ParkedResolve
    /\ ParkedWindow
    /\ ParkedDistribute
    /\ ParkedRetry
    /\ ParkedBatcher
    /\ ParkedSemantic
    /\ ParkedCache
    /\ ParkedBreaker
    /\ ParkedHealth
    /\ ParkedRelay
    /\ ParkedDist
    /\ ParkedSelector
    /\ lclock = 0
    /\ RedisEnabled = FALSE
    /\ lsettings \in LimiterSettings
    /\ lstore = [k \in LKeys |-> NoEntry]
    /\ lcall = [p \in LProcs |-> NoLimiterCall]
    /\ lcount = 0
    /\ ljumps = 0
    /\ lhist = [k \in LKeys |-> <<>>]

\* half a second passes
LimiterTick ==
    /\ ljumps < MaxJumps + 1
    /\ ljumps' = ljumps + 1
    /\ lclock' = lclock + (TicksPerSecond \div 2)
    /\ UNCHANGED <<RedisEnabled, lsettings, lstore, lcall, lcount, lhist>>
    /\ UNCHANGED notLimiter

\* Request / RequestWithInfo up to the lock: getShard and now := time.Now().Unix()
LimiterStart(p, key, info) ==
    /\ ~lcall[p].active
    /\ lcount < MaxLimRequests
    /\ lcount' = lcount + 1
    /\ lcall' = [lcall EXCEPT ![p] = [active |-> TRUE, key |-> key, now |-> Unix(lclock),
                                      at |-> lclock, info |-> info]]
    /\ UNCHANGED <<lclock, RedisEnabled, lsettings, lstore, ljumps, lhist>>
    /\ UNCHANGED notLimiter

\* Request / RequestWithInfo from s.mutex.Lock() to the deferred Unlock
LimiterLocked(p) ==
    /\ lcall[p].active
    /\ LET c == lcall[p]
           r == RequestWithInfo(lstore[c.key], c.now, lsettings.limit, lsettings.duration)
       IN  /\ lstore' = [lstore EXCEPT ![c.key] = r.entry]
           /\ lhist' = [lhist EXCEPT ![c.key] =
                           Append(@, [at |-> c.at, allowed |-> r.allowed,
                                      remaining |-> IF c.info THEN r.remaining ELSE 0,
                                      resetAt |-> IF c.info THEN r.resetAt * TicksPerSecond
                                                  ELSE 0,
                                      status |-> 200, retryAfter |-> 0,
                                      fault |-> "none", lockedAt |-> lclock])]
    /\ lcall' = [lcall EXCEPT ![p] = NoLimiterCall]
    /\ UNCHANGED <<lclock, RedisEnabled, lsettings, lcount, ljumps>>
    /\ UNCHANGED notLimiter

\* cleanupShard on the shard of key: the entry goes when it was not accessed for
\* longer than the expiration or has no timestamps
LimiterCleanup(key) ==
    /\ lstore[key].exists
    /\ \/ Unix(lclock) - lstore[key].lastAccess > lsettings.expiration
       \/ Len(lstore[key].timestamps) = 0
    /\ lstore' = [lstore EXCEPT ![key] = NoEntry]
    /\ UNCHANGED <<lclock, RedisEnabled, lsettings, lcall, lcount, ljumps, lhist>>
    /\ UNCHANGED notLimiter

NextLimiter ==
    \/ LimiterTick
    \/ \E p \in LProcs, key \in LKeys, info \in BOOLEAN : LimiterStart(p, key, info)
    \/ \E p \in LProcs : LimiterLocked(p)
    \/ \E key \in LKeys : LimiterCleanup(key)

SpecLimiter == InitLimiter /\ [][NextLimiter]_vars

(***************************************************************************)
(* Sharded limiter: properties.                                            *)
(***************************************************************************)
\* the calls on key that were allowed and read the clock at or after tick t and
\* less than one window after it
AllowedFrom(key, t) ==
    {i \in 1..Len(lhist[key]) :
        /\ lhist[key][i].allowed
        /\ lhist[key][i].at >= t
        /\ lhist[key][i].at < t + lsettings.duration * TicksPerSecond}

\* C14: for every key and every interval of length windowSeconds, the calls
\* allowed for the key inside the interval number at most limit
C14_AtMostLimitPerWindow ==
    \A key \in LKeys : \A i \in 1..Len(lhist[key]) :
        Cardinality(AllowedFrom(key, lhist[key][i].at)) <= lsettings.limit

\* the entry of key after its first n decided calls when no cleanupShard ever ran:
\* the locked body applied to the calls in the order they took the lock
RECURSIVE entryWithoutSweep(_, _)
entryWithoutSweep(key, n) ==
    IF n = 0 THEN NoEntry
    ELSE RequestWithInfo(entryWithoutSweep(key, n - 1), Unix(lhist[key][n].at),
                         lsettings.limit, lsettings.duration).entry

\* what the i-th decided call on key returns when no cleanupShard ever ran
allowedWithoutSweep(key, i) ==
    RequestWithInfo(entryWithoutSweep(key, i - 1), Unix(lhist[key][i].at),
                    lsettings.limit, lsettings.duration).allowed

\* every decided call took the lock in the second in which it read the clock
NoStaleNow ==
    \A key \in LKeys : \A i \in 1..Len(lhist[key]) :
        Unix(lhist[key][i].at) = Unix(lhist[key][i].lockedAt)

\* C37: the sweepers never change a decision: every decided call on every key
\* was allowed or denied exactly as it is when no cleanupShard ever ran
C37_SweepNeverChangesDecision ==
    \A key \in LKeys : \A i \in 1..Len(lhist[key]) :
        lhist[key][i].allowed = allowedWithoutSweep(key, i)

\* the sweepers change no decision while no call decides with a stale now
SweepHarmlessWithoutStaleNow ==
    NoStaleNow => C37_SweepNeverChangesDecision

(***************************************************************************)
(* Rate-limit middleware: one client's requests through                    *)
(* memoryRateLimiterOptimized or redisRateLimiterOptimized, the latter     *)
(* with the sliding-window script and the replies a backend can give.      *)
(***************************************************************************)
\* time.Now().UnixMilli()
UnixMilli(clock) == clock * 10

\* int64(x / y) for a float quotient: truncation toward zero
TruncDiv(x, y) == IF x >= 0 THEN x \div y ELSE -((-x) \div y)

\* int64(time.Until(resetTime).Seconds()) + 1, resetTime as a tick of the clock
retryAfterSeconds(resetTick, clock) == TruncDiv(resetTick - clock, TicksPerSecond) + 1

\* slidingWindowRateLimitScript on the scores of the key's sorted set: the scores
\* it leaves and the three numbers it returns
slidingWindowRateLimitScript(scores, nowMs, windowMs, maxRequests) ==
    LET kept == SelectSeq(scores, LAMBDA score : score > nowMs - windowMs)
        resetAtMs == IF Len(kept) > 0 THEN SeqMin(kept, nowMs) + windowMs
                     ELSE nowMs + windowMs
    IN  IF Len(kept) < maxRequests
        THEN [scores |-> Append(kept, nowMs),
              reply |-> <<1, maxRequests - Len(kept) - 1, resetAtMs>>]
        ELSE [scores |-> kept, reply |-> <<0, 0, resetAtMs>>]

\* values a reply can hold
IntValue(n) == [type |-> "int64", val |-> n, str |-> ""]
StringValue(str) == [type |-> "string", val |-> 0, str |-> str]
NilValue == [type |-> "nil", val |-> 0, str |-> ""]

\* i, _ := strconv.ParseInt(val, 10, 64) on the strings used here: 0 for one that
\* is not a number
ParseInt(str) ==
    CASE str = "0" -> 0
      [] str = "1" -> 1
      [] OTHER -> 0

\* toInt64: an integer as it is, a string through strconv.ParseInt (0 when it
\* does not parse), anything else 0
toInt64(v) ==
    CASE v.type = "int64" -> v.val
      [] v.type = "string" -> ParseInt(v.str)
      [] OTHER -> 0

\* SlidingWindowRateLimit after RunScript returned: result is an error, a value
\* that is no array, or an array of values; resetAt is a tick of the clock
parseRateLimitResult(result, maxRequests) ==
    IF result.kind # "array" \/ Len(result.elems) < 3
    THEN [Allowed |-> TRUE, Remaining |-> maxRequests - 1, ResetAt |-> 0]
    ELSE [Allowed |-> toInt64(result.elems[1]) = 1,
          Remaining |-> toInt64(result.elems[2]),
          ResetAt |-> toInt64(result.elems[3]) \div 10]

\* what a failing backend hands back instead of the script's reply
FaultResults ==
    {[kind |-> "error", elems |-> <<>>, fault |-> "error"],
     [kind |-> "string", elems |-> <<>>, fault |-> "unparseable"],
     [kind |-> "array", elems |-> <<IntValue(1)>>, fault |-> "unparseable"],
     [kind |-> "array", elems |-> <<NilValue, StringValue("abc"), NilValue>>,
      fault |-> "unparseable"]}

\* the two configurations of the acceptance scenarios: 5 per second (local
\* limiter), 3 per minute (local limiter or Redis)
RateSettings ==
    {[limit |-> 5, duration |-> 1, expiration |-> 1200],
     [limit |-> 3, duration |-> 60, expiration |-> 1200]}

\* the clock advances of a run, in ticks
RateJumps == IF lsettings.duration = 1 THEN {5, 50, 101} ELSE {50, 250, 5900}

\* the client whose requests are limited
Client == "k1"

InitRateLimit ==
    /\ ParkedMetrics
    /\ ParkedStats
    /\ ParkedHits
    /\ ParkedStream
    /\ ParkedQuota
    /\ ParkedResolve
    /\ ParkedWindow
    /\ ParkedDistribute
    /\ ParkedRetry
    /\ ParkedBatcher
    /\ ParkedSemantic
    /\ ParkedCache
    /\ ParkedBreaker
    /\ ParkedHealth
    /\ ParkedRelay
    /\ ParkedDist
    /\ ParkedSelector
    /\ lclock = 0
    /\ RedisEnabled \in BOOLEAN
    /\ lsettings \in RateSettings
    /\ RedisEnabled => lsettings.limit = 3
    /\ lstore = [k \in LKeys |-> NoEntry]
    /\ lcall = [p \in LProcs |-> NoLimiterCall]
    /\ lcount = 0
    /\ ljumps = 0
    /\ lhist = [k \in LKeys |-> <<>>]

\* time passes between two requests
RateLimitWait(d) ==
    /\ ljumps < MaxJumps
    /\ d \in RateJumps
    /\ ljumps' = ljumps + 1
    /\ lclock' = lclock + d
    /\ UNCHANGED <<RedisEnabled, lsettings, lstore, lcall, lcount, lhist>>
    /\ UNCHANGED notLimiter

\* memoryRateLimiterOptimized for one request of the client
MemoryRateLimit ==
    /\ ~RedisEnabled
    /\ Len(lhist[Client]) < lsettings.limit + 2
    /\ LET r == RequestWithInfo(lstore[Client], Unix(lclock), lsettings.limit,
                                lsettings.duration)
       IN  /\ lstore' = [lstore EXCEPT ![Client] = r.entry]
           /\ lhist' = [lhist EXCEPT ![Client] =
                 Append(@, [at |-> lclock, allowed |-> r.allowed,
                            remaining |-> r.remaining,
                            resetAt |-> r.resetAt * TicksPerSecond,
                            status |-> IF r.allowed THEN 200 ELSE 429,
                            retryAfter |-> IF r.allowed THEN 0
                                           ELSE retryAfterSeconds(
                                                    r.resetAt * TicksPerSecond, lclock),
                            fault |-> "none"])]
    /\ UNCHANGED <<lclock, RedisEnabled, lsettings, lcall, lcount, ljumps>>
    /\ UNCHANGED notLimiter

\* redisRateLimiterOptimized for one request of the client; faulty is whether the
\* backend fails (it does so at most once), ran whether the script ran all the
\* same, result what came back
RedisRateLimit(faulty, ran, result) ==
    /\ RedisEnabled
    /\ Len(lhist[Client]) < lsettings.limit + 2
    /\ faulty => \A i \in 1..Len(lhist[Client]) : lhist[Client][i].fault = "none"
    /\ (~faulty \/ result.kind # "error") => ran = ~faulty
    /\ LET run == slidingWindowRateLimitScript(lstore[Client].timestamps,
                      UnixMilli(lclock), lsettings.duration * 1000, lsettings.limit)
           got == IF faulty THEN result
                  ELSE [kind |-> "array",
                        elems |-> <<IntValue(run.reply[1]), IntValue(run.reply[2]),
                                    IntValue(run.reply[3])>>,
                        fault |-> "none"]
           r == parseRateLimitResult(got, lsettings.limit)
       IN  /\ lstore' = [lstore EXCEPT ![Client] =
                 IF ran THEN [exists |-> TRUE, timestamps |-> run.scores,
                              lastAccess |-> Unix(lclock)]
                 ELSE @]
           /\ lhist' = [lhist EXCEPT ![Client] =
                 Append(@, [at |-> lclock, allowed |-> r.Allowed,
                            remaining |-> r.Remaining,
                            resetAt |-> r.ResetAt,
                            status |-> IF r.Allowed THEN 200 ELSE 429,
                            retryAfter |-> IF r.Allowed THEN 0
                                           ELSE retryAfterSeconds(r.ResetAt, lclock),
                            fault |-> got.fault])]
    /\ UNCHANGED <<lclock, RedisEnabled, lsettings, lcall, lcount, ljumps>>
    /\ UNCHANGED notLimiter

NextRateLimit ==
    \/ \E d \in {5, 50, 101, 250, 5900} : RateLimitWait(d)
    \/ MemoryRateLimit
    \/ \E faulty \in BOOLEAN, ran \in BOOLEAN, result \in FaultResults :
          RedisRateLimit(faulty, ran, result)

SpecRateLimit == InitRateLimit /\ [][NextRateLimit]_vars

(***************************************************************************)
(* Rate-limit middleware: properties.                                      *)
(***************************************************************************)
\* the client's requests so far, none of them hit by a backend fault
Served == lhist[Client]
NoFaults == \A i \in 1..Len(Served) : Served[i].fault = "none"

\* C15: limit 5, window 1 s, local limiter, first request at t0: five requests
\* within 100 ms are all allowed, a sixth inside the same window is denied with
\* resetAt within a second of t0 + 1 s, a seventh 1.01 s after t0 is allowed
C15_FiveAllowedSixthDenied ==
    (~RedisEnabled /\ lsettings.limit = 5 /\ lsettings.duration = 1) =>
        \A i \in 1..Len(Served) :
            LET t0 == Served[1].at
                burst == Len(Served) >= 5 /\ Served[5].at <= t0 + 10
                sixthInside == Len(Served) >= 6 /\ Served[6].at < t0 + TicksPerSecond
            IN  /\ (i <= 5 /\ Served[i].at <= t0 + 10) => Served[i].allowed
                /\ (i = 6 /\ burst /\ sixthInside) =>
                       /\ ~Served[6].allowed
                       /\ Served[6].resetAt >= t0
                       /\ Served[6].resetAt <= t0 + 2 * TicksPerSecond
                /\ (i = 7 /\ burst /\ sixthInside /\ Served[7].at = t0 + 101) =>
                       Served[7].allowed

C17_BackendFaultAllows ==
    RedisEnabled =>
        \A i \in 1..Len(Served) :
            Served[i].fault # "none" => (Served[i].allowed /\ Served[i].status = 200)

(***************************************************************************)
(* Exact response cache (relay/cache/response_cache.go), the capture and   *)
(* replay of streams (streaming_cache.go) and their use by RelayTextHelper.*)
(* A string is a sequence of bytes: "a" is a letter, "xFF" a byte that is   *)
(* not valid UTF-8, "uFFFD" the replacement character.  The key-value      *)
(* store keeps a value until its expiry.                                   *)
(***************************************************************************)
CPayloads == {<<"a">>, <<"a", "xFF">>, <<"a", "uFFFD">>}

\* generateKey: the SHA-256 (taken to be free of collisions) of the JSON object
\* of model and messages, whose keys json.Marshal writes in sorted order
generateKey(model, messages) == <<"messages", messages, "model", model>>

CKeys == {generateKey(model, messages) : model \in CModels, messages \in CMessages}

\* a string as json.Marshal writes it and json.Unmarshal reads it back: bytes
\* that are not valid UTF-8 become the replacement character
jsonString(str) == [i \in 1..Len(str) |-> IF str[i] = "xFF" THEN "uFFFD" ELSE str[i]]

\* json.Marshal of a CachedResponse followed by json.Unmarshal
jsonCachedResponse(cached) ==
    [Content |-> jsonString(cached.Content), Model |-> cached.Model,
     Created |-> cached.Created, TokensUsed |-> cached.TokensUsed]

\* common.RedisSet(key, value, expiration)
RedisSet(store, key, value, expiration, clock) ==
    [store EXCEPT ![key] = [present |-> TRUE, data |-> value,
                            expires |-> clock + expiration]]

\* RedisGet that still returns a value after its expiry
RedisGetIgnoringExpiry(store, key, clock) ==
    IF store[key].present
    THEN [err |-> FALSE, data |-> store[key].data]
    ELSE [err |-> TRUE, data |-> <<>>]

\* common.RedisGet(key): an error when the key is absent or expired
RedisGet(store, key, clock) ==
    IF store[key].present /\ clock < store[key].expires
    THEN [err |-> FALSE, data |-> store[key].data]
    ELSE [err |-> TRUE, data |-> <<>>]

\* ResponseCache.CheckCache
CheckCache(store, model, messages, clock) ==
    IF ~rc.enabled \/ ~RedisEnabled
    THEN [found |-> FALSE, content |-> <<>>]
    ELSE LET got == RedisGet(store, generateKey(model, messages), clock)
         IN  IF got.err THEN [found |-> FALSE, content |-> <<>>]
             ELSE [found |-> TRUE, content |-> got.data.Content]

\* ResponseCache.StoreCache: the store it leaves
StoreCache(store, model, messages, responseContent, tokensUsed, clock) ==
    IF ~rc.enabled \/ ~RedisEnabled
    THEN store
    ELSE RedisSet(store, generateKey(model, messages),
                  jsonCachedResponse([Content |-> responseContent, Model |-> model,
                                      Created |-> clock, TokensUsed |-> tokensUsed]),
                  rc.ttl, clock)

\* the body ReplayCachedStream writes: the cached stream line by line
ReplayCachedStream(cachedStream) == cachedStream

\* the body of the completion synthesized from ExtractContentFromStream
CachedCompletion(cachedStream) == <<"chatcmpl-cached">> \o cachedStream

\* textRequest.Model after getMappedModelName; the mapping, when the channel has
\* one, sends gpt-4o to gpt-4o-mini
getMappedModelName(model, mapped) ==
    IF mapped /\ model = "gpt-4o" THEN "gpt-4o-mini" ELSE model

InitCache ==
    /\ ParkedMetrics
    /\ ParkedStats
    /\ ParkedHits
    /\ ParkedStream
    /\ ParkedQuota
    /\ ParkedResolve
    /\ ParkedWindow
    /\ ParkedDistribute
    /\ ParkedRetry
    /\ ParkedBatcher
    /\ ParkedSemantic
    /\ ParkedBreaker
    /\ ParkedHealth
    /\ ParkedRelayState
    /\ ParkedDist
    /\ ParkedSelector
    /\ ParkedLimiterState
    /\ RedisEnabled \in BOOLEAN
    /\ ResponseCacheEnabled \in BOOLEAN
    /\ cclock = 0
    /\ rc = [enabled |-> ResponseCacheEnabled, ttl |-> 2]
    /\ kv = [k \in CKeys |-> NoData]
    /\ ctasks = {}
    /\ cops = 0
    /\ cstored = [k \in CKeys |-> NoStore]
    /\ clookup = NoLookup
    /\ creqs = <<>>

CacheTick ==
    /\ cclock < MaxCacheTime
    /\ cclock' = cclock + 1
    /\ UNCHANGED <<rc, kv, ctasks, cops, cstored, clookup, creqs>>
    /\ UNCHANGED notCache

\* a call of StoreCache(model, messages, responseContent, tokensUsed)
StoreCacheCall(model, messages, responseContent) ==
    /\ cops < MaxCacheOps
    /\ cops' = cops + 1
    /\ kv' = StoreCache(kv, model, messages, responseContent, 1, cclock)
    /\ cstored' = IF rc.enabled /\ RedisEnabled
                  THEN [cstored EXCEPT ![<<"messages", messages, "model", model>>] =
                           [stored |-> TRUE, payload |-> responseContent, at |-> cclock]]
                  ELSE cstored
    /\ UNCHANGED <<cclock, rc, ctasks, clookup, creqs>>
    /\ UNCHANGED notCache

\* a call of CheckCache(model, messages)
CheckCacheCall(model, messages) ==
    /\ cops < MaxCacheOps
    /\ cops' = cops + 1
    /\ LET r == CheckCache(kv, model, messages, cclock)
       IN  clookup' = [called |-> TRUE, model |-> model, messages |-> messages,
                       at |-> cclock,
                       prior |-> cstored[<<"messages", messages, "model", model>>],
                       found |-> r.found, content |-> r.content]
    /\ UNCHANGED <<cclock, rc, kv, ctasks, cstored, creqs>>
    /\ UNCHANGED notCache

\* RelayTextHelper for a valid request that the upstream, when asked, answers with
\* status 200 and body payload: the cache check, the replay or the synthesized
\* completion on a hit, otherwise the upstream call and, for a stream, the start
\* of the goroutine that stores the captured stream
RelayTextCached(model, messages, stream, mapped, payload) ==
    /\ Len(creqs) < MaxCacheRequests
    /\ LET hit == IF ResponseCacheEnabled THEN CheckCache(kv, model, messages, cclock)
                  ELSE [found |-> FALSE, content |-> <<>>]
           ActualModelName == getMappedModelName(model, mapped)
       IN  IF hit.found
           THEN /\ creqs' = Append(creqs,
                       [model |-> model, messages |-> messages, stream |-> stream,
                        at |-> cclock, source |-> "cache", status |-> 200,
                        xCacheHit |-> stream,
                        body |-> IF stream THEN ReplayCachedStream(hit.content)
                                 ELSE CachedCompletion(hit.content)])
                /\ UNCHANGED ctasks
           ELSE /\ creqs' = Append(creqs,
                       [model |-> model, messages |-> messages, stream |-> stream,
                        at |-> cclock, source |-> "upstream", status |-> 200,
                        xCacheHit |-> FALSE, body |-> payload])
                /\ ctasks' = IF ResponseCacheEnabled /\ stream
                             THEN ctasks \cup {[model |-> ActualModelName,
                                                messages |-> messages,
                                                fullStream |-> payload]}
                             ELSE ctasks
    /\ UNCHANGED <<cclock, rc, kv, cops, cstored, clookup>>
    /\ UNCHANGED notCache

\* the goroutine of CaptureAndCacheStream runs StoreCache
CacheStoreTask(t) ==
    /\ t \in ctasks
    /\ ctasks' = ctasks \ {t}
    /\ kv' = StoreCache(kv, t.model, t.messages, t.fullStream, 1, cclock)
    /\ cstored' = IF rc.enabled /\ RedisEnabled
                  THEN [cstored EXCEPT ![<<"messages", t.messages, "model", t.model>>] =
                           [stored |-> TRUE, payload |-> t.fullStream, at |-> cclock]]
                  ELSE cstored
    /\ UNCHANGED <<cclock, rc, cops, clookup, creqs>>
    /\ UNCHANGED notCache

NextCache ==
    \/ CacheTick
    \/ \E model \in CModels, messages \in CMessages, responseContent \in CPayloads :
          StoreCacheCall(model, messages, responseContent)
    \/ \E model \in CModels, messages \in CMessages : CheckCacheCall(model, messages)

NextCachedRelay ==
    \/ CacheTick
    \/ \E model \in CModels, messages \in CMessages, stream \in BOOLEAN,
          mapped \in BOOLEAN, payload \in CPayloads :
          RelayTextCached(model, messages, stream, mapped, payload)
    \/ \E t \in ctasks : CacheStoreTask(t)

SpecCache == InitCache /\ [][NextCache]_vars

SpecCachedRelay == InitCache /\ [][NextCachedRelay]_vars

(***************************************************************************)
(* Exact response cache: properties.                                       *)
(***************************************************************************)
\* the last write, before the lookup, of the fingerprint looked up, and whether
\* it is still within its TTL at the time of the lookup
LookedUp == clookup.prior
LookupWithinTTL == LookedUp.stored /\ clookup.at < LookedUp.at + rc.ttl

ValidUTF8(str) == \A i \in 1..Len(str) : str[i] # "xFF"

C19_SecondServedFromCache ==
    (rc.enabled /\ RedisEnabled) =>
        \A i \in 1..(Len(creqs) - 1) :
            ( /\ creqs[i].model = creqs[i + 1].model
              /\ creqs[i].messages = creqs[i + 1].messages
              /\ creqs[i + 1].at < creqs[i].at + rc.ttl
              /\ creqs[i].source = "upstream"
              /\ creqs[i].status = 200 )
            => /\ creqs[i + 1].source = "cache"
               /\ creqs[i + 1].status = 200
               /\ creqs[i + 1].xCacheHit
               /\ creqs[i + 1].body = creqs[i].body

(***************************************************************************)
(* CaptureAndCacheStream (relay/cache/streaming_cache.go): the upstream    *)
(* body is scanned line by line, every line is written to the client and   *)
(* to the buffer, and the buffer is stored by a goroutine.  "LF" and "CR"   *)
(* are the line feed and the carriage return.                              *)
(***************************************************************************)
CBodies ==
    {<<>>,
     <<"a", "LF">>,
     <<"a", "CR", "LF", "a">>,
     <<"a", "LF", "LF">>,
     <<"a", "xFF", "LF">>}

\* dropCR of bufio: a line without its trailing carriage return
dropCR(data) ==
    IF Len(data) > 0 /\ data[Len(data)] = "CR" THEN SubSeq(data, 1, Len(data) - 1)
    ELSE data

\* the lines bufio.Scanner yields with ScanLines: split at each line feed, the
\* last line also when it has no line feed
RECURSIVE ScanLines(_)
ScanLines(data) ==
    IF data = <<>> THEN <<>>
    ELSE IF \E i \in 1..Len(data) : data[i] = "LF"
         THEN LET i == CHOOSE k \in 1..Len(data) :
                          /\ data[k] = "LF"
                          /\ \A j \in 1..(k - 1) : data[j] # "LF"
              IN  <<dropCR(SubSeq(data, 1, i - 1))>>
                      \o ScanLines(SubSeq(data, i + 1, Len(data)))
         ELSE <<dropCR(data)>>

\* the writes of line + "\n" for every line, one after the other
RECURSIVE WriteLines(_)
WriteLines(lines) ==
    IF lines = <<>> THEN <<>>
    ELSE Head(lines) \o <<"LF">> \o WriteLines(Tail(lines))

\* a buffer that keeps the first line only
BufferLinesFirstOnly(lines) ==
    IF lines = <<>> THEN <<>> ELSE Head(lines) \o <<"LF">>

\* buffer.WriteString(line + "\n") for every line
BufferLines(lines) == WriteLines(lines)

\* CaptureAndCacheStream for an upstream body; scanErr says whether the scanner
\* ends with an error, in which case nothing is stored.  The task remembers
\* what was written to the client
CaptureAndCacheStream(model, messages, body, scanErr) ==
    /\ Len(creqs) < MaxCaptures
    /\ LET lines == ScanLines(body)
           written == WriteLines(lines)
           buffer == BufferLines(lines)
       IN  /\ creqs' = Append(creqs,
                  [model |-> model, messages |-> messages, stream |-> TRUE,
                   at |-> cclock, source |-> "upstream", status |-> 200,
                   xCacheHit |-> FALSE, body |-> written])
           /\ ctasks' = IF scanErr THEN ctasks
                        ELSE ctasks \cup {[model |-> model, messages |-> messages,
                                           fullStream |-> buffer, written |-> written]}
    /\ UNCHANGED <<cclock, rc, kv, cops, cstored, clookup>>
    /\ UNCHANGED notCache

\* the goroutine runs StoreCache; the history keeps, per key, the bytes the
\* client was sent by the capture whose blob is stored
CaptureStoreTask(t) ==
    /\ t \in ctasks
    /\ ctasks' = ctasks \ {t}
    /\ kv' = StoreCache(kv, t.model, t.messages, t.fullStream, 1, cclock)
    /\ cstored' = IF rc.enabled /\ RedisEnabled
                  THEN [cstored EXCEPT ![<<"messages", t.messages, "model", t.model>>] =
                           [stored |-> TRUE, payload |-> t.written, at |-> cclock]]
                  ELSE cstored
    /\ UNCHANGED <<cclock, rc, cops, clookup, creqs>>
    /\ UNCHANGED notCache

NextCapture ==
    \/ CacheTick
    \/ \E model \in CModels, body \in CBodies, scanErr \in BOOLEAN :
          CaptureAndCacheStream(model, "m1", body, scanErr)
    \/ \E t \in ctasks : CaptureStoreTask(t)

SpecCapture == InitCache /\ [][NextCapture]_vars

GPT4o == <<"g", "p", "t", "-", "4", "o">>
GPT4Upper == <<"G", "P", "T", "-", "4">>
Claude35Sonnet == <<"c", "l", "a", "u", "d", "e", "-", "3", "-", "5", "-",
                    "s", "o", "n", "n", "e", "t">>
O1Mini == <<"o", "1", "-", "m", "i", "n", "i">>
SModels == {GPT4o, GPT4Upper, Claude35Sonnet, O1Mini}
SQueries == {"", "q1", "q2", "q3"}

\* strings.ToLower
ToLower(str) ==
    [i \in 1..Len(str) |-> CASE str[i] = "G" -> "g"
                             [] str[i] = "P" -> "p"
                             [] str[i] = "T" -> "t"
                             [] OTHER -> str[i]]

\* strings.Contains
Contains(str, substr) ==
    \E i \in 1..(Len(str) - Len(substr) + 1) :
        SubSeq(str, i, i + Len(substr) - 1) = substr

\* strings.Split(model, "-")[0]
FirstPart(str) ==
    IF \E i \in 1..Len(str) : str[i] = "-"
    THEN SubSeq(str, 1, (CHOOSE i \in 1..Len(str) :
                            /\ str[i] = "-"
                            /\ \A j \in 1..(i - 1) : str[j] # "-") - 1)
    ELSE str

extractModelFamily(model) ==
    LET lower == ToLower(model)
    IN  IF Contains(lower, <<"g", "p", "t", "-", "4">>) THEN <<"g", "p", "t", "4">>
        ELSE IF Contains(lower, <<"g", "p", "t", "-", "3", ".", "5">>)
             THEN <<"g", "p", "t", "3", "5">>
        ELSE IF Contains(lower, <<"c", "l", "a", "u", "d", "e">>)
             THEN <<"c", "l", "a", "u", "d", "e">>
        ELSE IF Contains(lower, <<"g", "e", "m", "i", "n", "i">>)
             THEN <<"g", "e", "m", "i", "n", "i">>
        ELSE IF Contains(lower, <<"l", "l", "a", "m", "a">>)
             THEN <<"l", "l", "a", "m", "a">>
        ELSE IF Contains(lower, <<"m", "i", "s", "t", "r", "a", "l">>)
             THEN <<"m", "i", "s", "t", "r", "a", "l">>
        ELSE FirstPart(lower)

\* isSameModelFamily that lets every pair of models share entries
isSameModelFamilyAlways(model1, model2) == TRUE

isSameModelFamily(model1, model2) ==
    extractModelFamily(model1) = extractModelFamily(model2)

\* generateEmbedding: q2 lies halfway between q1 and q3, which have nothing in
\* common; the empty text has the zero vector
generateEmbedding(text) ==
    CASE text = "q1" -> <<1, 0>>
      [] text = "q2" -> <<1, 1>>
      [] text = "q3" -> <<0, 1>>
      [] OTHER -> <<0, 0>>

\* vectorKey: the hash of the vector, taken to be free of collisions
vectorKey(vector) == vector

SVectors == {vectorKey(generateEmbedding(q)) : q \in SQueries \ {""}}

\* cosineSimilarity, squared and as a fraction <<numerator, denominator>>; the
\* components are not negative, so neither is the similarity
cosineSimilarity(va, vb) ==
    LET dot == va[1] * vb[1] + va[2] * vb[2]
        magA == va[1] * va[1] + va[2] * va[2]
        magB == vb[1] * vb[1] + vb[2] * vb[2]
    IN  IF magA = 0 \/ magB = 0 THEN <<0, 1>> ELSE <<dot * dot, magA * magB>>

SimGT(x, y) == x[1] * y[2] > y[1] * x[2]

\* score >= threshold, the threshold in hundredths
SimAtLeast(x, threshold) == x[1] * 10000 >= threshold * threshold * x[2]

NoVector == [present |-> FALSE, Vector |-> <<0, 0>>, Model |-> <<>>, Response |-> 0,
             Created |-> 0, HitCount |-> 0]

StoredKeys(vs) == {k \in SVectors : vs[k].present}

\* a score under which the younger entry is evicted first
evictScoreYoungest(entry, clock) == (entry.Created - clock) - entry.HitCount * 10

AgeAndHits(entry, clock) == [age |-> clock - entry.Created, hits |-> entry.HitCount]

\* evictLRU: the entries it may delete, those of highest age in hours minus ten
\* times the hit count; the map iteration and the unstable sort order the ties
evictScore(entry, clock) == (clock - entry.Created) - entry.HitCount * 10

evictCount(n) == IF n \div 10 < 1 THEN 1 ELSE n \div 10

evictLRU(vs, clock) ==
    IF StoredKeys(vs) = {} THEN {vs}
    ELSE { [k \in SVectors |-> IF k \in E THEN NoVector ELSE vs[k]] :
             E \in { X \in SUBSET StoredKeys(vs) :
                       /\ Cardinality(X) = evictCount(Cardinality(StoredKeys(vs)))
                       /\ \A x \in X, y \in StoredKeys(vs) \ X :
                             evictScore(vs[x], clock) >= evictScore(vs[y], clock) } }

\* the entries CheckSemantic may end its loop with as bestMatch: those of the
\* model's family with the highest score above zero, in any iteration order
bestMatches(vs, model, queryVector) ==
    LET same == {k \in StoredKeys(vs) : isSameModelFamily(model, vs[k].Model)}
        pos == {k \in same : SimGT(cosineSimilarity(queryVector, vs[k].Vector), <<0, 1>>)}
    IN  {k \in pos : \A j \in pos :
            ~SimGT(cosineSimilarity(queryVector, vs[j].Vector),
                   cosineSimilarity(queryVector, vs[k].Vector))}

SemSettings ==
    {[enabled |-> TRUE, threshold |-> 70, maxSize |-> 2],
     [enabled |-> TRUE, threshold |-> 95, maxSize |-> 1],
     [enabled |-> FALSE, threshold |-> 70, maxSize |-> 2]}

InitSemantic ==
    /\ ParkedMetrics
    /\ ParkedStats
    /\ ParkedHits
    /\ ParkedStream
    /\ ParkedQuota
    /\ ParkedResolve
    /\ ParkedWindow
    /\ ParkedDistribute
    /\ ParkedRetry
    /\ ParkedBatcher
    /\ ParkedBreaker
    /\ ParkedHealth
    /\ ParkedRelay
    /\ ParkedDist
    /\ ParkedSelector
    /\ ParkedLimiter
    /\ ParkedCache
    /\ sclock = 0
    /\ sc \in SemSettings
    /\ vectors = [k \in SVectors |-> NoVector]
    /\ sops = 0
    /\ sunder = <<>>
    /\ slookup = NoSemLookup
    /\ sevict = NoEviction

SemanticTick ==
    /\ sclock < MaxSemTime
    /\ sclock' = sclock + 1
    /\ UNCHANGED <<sc, vectors, sops, sunder, slookup, sevict>>
    /\ UNCHANGED notSemantic

\* StoreSemantic(model, messages, response, tokens); the response is the
\* number of the store
StoreSemantic(model, query) ==
    /\ sops < MaxSemOps
    /\ sops' = sops + 1
    /\ IF ~sc.enabled \/ query = ""
       THEN UNCHANGED <<vectors, sunder>> /\ sevict' = NoEviction
       ELSE LET vector == generateEmbedding(query)
                key == vectorKey(vector)
                entry == [present |-> TRUE, Vector |-> vector, Model |-> model,
                          Response |-> Len(sunder) + 1, Created |-> sclock,
                          HitCount |-> 0]
            IN  /\ \E vs \in (IF Cardinality(StoredKeys(vectors)) >= sc.maxSize
                              THEN evictLRU(vectors, sclock) ELSE {vectors}) :
                       /\ vectors' = [vs EXCEPT ![key] = entry]
                       /\ sevict' =
                             IF Cardinality(StoredKeys(vectors)) >= sc.maxSize
                             THEN [stored |-> TRUE,
                                   size |-> Cardinality(StoredKeys(vectors)),
                                   evicted |-> {AgeAndHits(vectors[k], sclock) :
                                                   k \in StoredKeys(vectors) \ StoredKeys(vs)},
                                   kept |-> {AgeAndHits(vectors[k], sclock) :
                                                k \in StoredKeys(vs)}]
                             ELSE [NoEviction EXCEPT !.stored = TRUE]
                /\ sunder' = Append(sunder, model)
    /\ UNCHANGED <<sclock, sc, slookup>>
    /\ UNCHANGED notSemantic

\* CheckSemantic(model, messages); HitCount++ runs under the read lock, so the
\* increment may be lost to that of a concurrent lookup
CheckSemantic(model, query) ==
    /\ sops < MaxSemOps
    /\ sops' = sops + 1
    /\ LET queryVector == generateEmbedding(query)
           exact == IF query # "" /\ vectors[vectorKey(queryVector)].present
                    THEN vectors[vectorKey(queryVector)].Model ELSE <<>>
           miss == [called |-> TRUE, model |-> model, exact |-> exact,
                    found |-> FALSE, response |-> 0]
       IN  IF ~sc.enabled \/ query = "" \/ bestMatches(vectors, model, queryVector) = {}
           THEN /\ slookup' = miss
                /\ UNCHANGED vectors
           ELSE \E best \in bestMatches(vectors, model, queryVector) :
                  IF SimAtLeast(cosineSimilarity(queryVector, vectors[best].Vector),
                                sc.threshold)
                  THEN /\ \E hits \in {vectors[best].HitCount, vectors[best].HitCount + 1} :
                            vectors' = [vectors EXCEPT ![best].HitCount = hits]
                       /\ slookup' = [called |-> TRUE, model |-> model, exact |-> exact,
                                      found |-> TRUE,
                                      response |-> vectors[best].Response]
                  ELSE /\ slookup' = miss
                       /\ UNCHANGED vectors
    /\ UNCHANGED <<sclock, sc, sunder, sevict>>
    /\ UNCHANGED notSemantic

NextSemantic ==
    \/ SemanticTick
    \/ \E model \in SModels, query \in SQueries : StoreSemantic(model, query)
    \/ \E model \in SModels, query \in SQueries : CheckSemantic(model, query)

SpecSemantic == InitSemantic /\ [][NextSemantic]_vars

\* loadFromRedis: every entry the index in Redis lists is put into the map,
\* whatever maxSize is; persistToRedis wrote each with the hit count zero
loadFromRedis(keys) ==
    [k \in SVectors |->
        IF k \in keys
        THEN [present |-> TRUE, Vector |-> k, Model |-> GPT4o,
              Response |-> CHOOSE i \in 1..3 : <<<<1, 0>>, <<1, 1>>, <<0, 1>>>>[i] = k,
              Created |-> 0, HitCount |-> 0]
        ELSE NoVector]

\* InitSemanticCache with Redis enabled: the index holds what an earlier
\* process, of any maxSize, left there
InitSemanticLoaded ==
    /\ ParkedMetrics
    /\ ParkedStats
    /\ ParkedHits
    /\ ParkedStream
    /\ ParkedQuota
    /\ ParkedResolve
    /\ ParkedWindow
    /\ ParkedDistribute
    /\ ParkedRetry
    /\ ParkedBatcher
    /\ ParkedBreaker
    /\ ParkedHealth
    /\ ParkedRelay
    /\ ParkedDist
    /\ ParkedSelector
    /\ ParkedLimiter
    /\ ParkedCache
    /\ sclock = 0
    /\ sc \in SemSettings
    /\ \E keys \in SUBSET SVectors : vectors = loadFromRedis(keys)
    /\ sops = 0
    /\ sunder = <<GPT4o, GPT4o, GPT4o>>
    /\ slookup = NoSemLookup
    /\ sevict = NoEviction

NextSemanticLoaded ==
    \/ SemanticTick
    \/ \E query \in SQueries : StoreSemantic(GPT4o, query)
    \/ \E query \in SQueries : CheckSemantic(GPT4o, query)

SpecSemanticLoaded == InitSemanticLoaded /\ [][NextSemanticLoaded]_vars

(***************************************************************************)
(* Semantic cache: properties.                                             *)
(***************************************************************************)
\* C20: the response a lookup returns was stored under a model of the family of
\* the model looked up; in particular a lookup for claude-3-5-sonnet never
\* returns a response stored under gpt-4o, nor the other way round
C20_FamilyIsolation ==
    slookup.found =>
        /\ extractModelFamily(sunder[slookup.response]) = extractModelFamily(slookup.model)
        /\ slookup.model = Claude35Sonnet => sunder[slookup.response] # GPT4o
        /\ slookup.model = GPT4o => sunder[slookup.response] # Claude35Sonnet

EvictionScore(e) == e.age - 10 * e.hits

C29_AtMostMaxSize ==
    sevict.stored => Cardinality(StoredKeys(vectors)) <= sc.maxSize

\* a store into a full cache has evicted and left the cache full again
C29_FullAfterEviction ==
    /\ sevict.size > 0
    /\ sevict.size = sc.maxSize
    /\ Cardinality(StoredKeys(vectors)) = sc.maxSize

\* a lookup for claude-3-5-sonnet of the very query an entry stored under gpt-4o
\* holds came back empty
C20_IdenticalQueryOtherFamily ==
    /\ slookup.called
    /\ slookup.model = Claude35Sonnet
    /\ slookup.exact = GPT4o
    /\ ~slookup.found

(***************************************************************************)
(* Log batcher (model/log_batcher.go).  Add appends under the mutex and    *)
(* starts a flush goroutine when the buffer has reached maxSize; flushLoop *)
(* flushes on every tick until done is closed; flush swaps the buffer out  *)
(* under the mutex and inserts the batch afterwards, in one transaction.   *)
(***************************************************************************)
LBSizes == {1, 2}

\* a swap that leaves the entries in the buffer
swapBufferKeep(buffer) == buffer

\* b.buffer = make([]*Log, 0, b.maxSize): the buffer a flush leaves
swapBuffer(buffer) == <<>>

\* the number of chunks of a batch
chunkCount(logs) == (Len(logs) + chunkSize - 1) \div chunkSize

\* chunk k of a batch: logs[i:end]
chunk(logs, k) ==
    LET i == (k - 1) * chunkSize
        end == IF i + chunkSize > Len(logs) THEN Len(logs) ELSE i + chunkSize
    IN  SubSeq(logs, i + 1, end)

\* the faults of the database during one batch insert: Begin fails (0),
\* CreateInBatches fails at chunk k (k), Commit fails (chunkCount + 1), none
\* (chunkCount + 2)
InsertFaults(logs) == 0..(chunkCount(logs) + 2)

\* the rows chunks 1..k of the batch add to those of the transaction
RECURSIVE created(_, _)
created(logs, k) == IF k = 0 THEN <<>> ELSE created(logs, k - 1) \o chunk(logs, k)

\* a batch insert that leaves in the table the chunks created before the error
batchInsertLogsNoRollback(rows, logs, fault) ==
    IF logs = <<>> THEN [rows |-> rows, err |-> FALSE]
    ELSE IF fault = 0 THEN [rows |-> rows, err |-> TRUE]
    ELSE IF fault \in 1..chunkCount(logs)
         THEN [rows |-> rows \o created(logs, fault - 1), err |-> TRUE]
    ELSE IF fault = chunkCount(logs) + 1 THEN [rows |-> rows, err |-> TRUE]
    ELSE [rows |-> rows \o created(logs, chunkCount(logs)), err |-> FALSE]

\* batchInsertLogs(logs): the rows of the table afterwards and whether an error
\* is returned; the chunks are created in one transaction, which is rolled
\* back at the first chunk that fails and takes effect at Commit
batchInsertLogs(rows, logs, fault) ==
    IF logs = <<>> THEN [rows |-> rows, err |-> FALSE]
    ELSE IF fault = 0 THEN [rows |-> rows, err |-> TRUE]
    ELSE IF fault \in 1..chunkCount(logs) THEN [rows |-> rows, err |-> TRUE]
    ELSE IF fault = chunkCount(logs) + 1 THEN [rows |-> rows, err |-> TRUE]
    ELSE [rows |-> rows \o created(logs, chunkCount(logs)), err |-> FALSE]

InitBatcher ==
    /\ ParkedMetrics
    /\ ParkedStats
    /\ ParkedHits
    /\ ParkedStream
    /\ ParkedQuota
    /\ ParkedResolve
    /\ ParkedWindow
    /\ ParkedDistribute
    /\ ParkedRetry
    /\ ParkedBreaker
    /\ ParkedHealth
    /\ ParkedRelay
    /\ ParkedDist
    /\ ParkedSelector
    /\ ParkedLimiter
    /\ ParkedCache
    /\ ParkedSemantic
    /\ lbuffer = <<>>
    /\ lbmaxSize \in LBSizes
    /\ lbstarted = FALSE
    /\ lbdone = FALSE
    /\ lbnext = 0
    /\ lbpending = 0
    /\ lbinflight = {}
    /\ lbloop = "none"
    /\ lbstop = "idle"
    /\ lbstore = <<>>
    /\ lbhanded = {}
    /\ lbbefore = 0
    /\ lbfailed = {}

\* Start: the first call sets started and starts flushLoop
BatcherStart ==
    /\ ~lbstarted
    /\ lbstop = "idle"
    /\ lbstarted' = TRUE
    /\ lbloop' = "select"
    /\ UNCHANGED <<lbuffer, lbmaxSize, lbdone, lbnext, lbpending, lbinflight, lbstop,
                   lbstore, lbhanded, lbfailed, lbbefore>>
    /\ UNCHANGED notBatcher

\* Add(log)
BatcherAdd ==
    /\ lbnext < MaxAdds
    /\ lbnext' = lbnext + 1
    /\ lbuffer' = Append(lbuffer, lbnext + 1)
    /\ lbpending' = IF Len(lbuffer) + 1 >= lbmaxSize THEN lbpending + 1 ELSE lbpending
    /\ UNCHANGED <<lbmaxSize, lbstarted, lbdone, lbinflight, lbloop, lbstop, lbstore,
                   lbhanded, lbfailed, lbbefore>>
    /\ UNCHANGED notBatcher

\* the locked part of flush() run by owner: nothing when the buffer is empty,
\* otherwise the buffer is swapped out
flushLocked(owner) ==
    /\ lbuffer # <<>>
    /\ lbinflight' = lbinflight \cup {[owner |-> owner, logs |-> lbuffer]}
    /\ lbuffer' = swapBuffer(lbuffer)

\* the goroutine started by Add runs flush()
BatcherAsyncFlush ==
    /\ lbpending > 0
    /\ lbpending' = lbpending - 1
    /\ IF lbuffer = <<>> THEN UNCHANGED <<lbuffer, lbinflight>> ELSE flushLocked("async")
    /\ UNCHANGED <<lbmaxSize, lbstarted, lbdone, lbnext, lbloop, lbstop, lbstore,
                   lbhanded, lbfailed, lbbefore>>
    /\ UNCHANGED notBatcher

\* flushLoop takes the ticker case of its select
BatcherTick ==
    /\ lbloop = "select"
    /\ IF lbuffer = <<>> THEN UNCHANGED <<lbuffer, lbinflight, lbloop>>
       ELSE flushLocked("ticker") /\ lbloop' = "flushing"
    /\ UNCHANGED <<lbmaxSize, lbstarted, lbdone, lbnext, lbpending, lbstop, lbstore,
                   lbhanded, lbfailed, lbbefore>>
    /\ UNCHANGED notBatcher

\* flushLoop takes the done case of its select and returns
BatcherLoopDone ==
    /\ lbloop = "select"
    /\ lbdone
    /\ lbloop' = "exited"
    /\ UNCHANGED <<lbuffer, lbmaxSize, lbstarted, lbdone, lbnext, lbpending, lbinflight,
                   lbstop, lbstore, lbhanded, lbfailed, lbbefore>>
    /\ UNCHANGED notBatcher

\* flush after the swap: batchInsertLogs(logs) under some fault of the
\* database; on an error the batch is logged and dropped; then the flush
\* returns to its caller
BatcherInsert(batch, ok) ==
    /\ batch \in lbinflight
    /\ lbinflight' = lbinflight \ {batch}
    /\ lbhanded' = lbhanded \cup {batch.logs[i] : i \in 1..Len(batch.logs)}
    /\ \E fault \in InsertFaults(batch.logs) :
          LET r == batchInsertLogs(lbstore, batch.logs, fault)
          IN  /\ ok = ~r.err
              /\ lbstore' = r.rows
              /\ lbfailed' = IF r.err
                             THEN lbfailed \cup {batch.logs[i] : i \in 1..Len(batch.logs)}
                             ELSE lbfailed
    /\ lbloop' = IF batch.owner = "ticker" THEN "select" ELSE lbloop
    /\ lbstop' = IF batch.owner = "stop" THEN "returned" ELSE lbstop
    /\ UNCHANGED <<lbuffer, lbmaxSize, lbstarted, lbdone, lbnext, lbpending, lbbefore>>
    /\ UNCHANGED notBatcher

\* Stop up to b.wg.Wait(): returns at once when the batcher was not started,
\* otherwise closes done
BatcherStop ==
    /\ lbstop = "idle"
    /\ lbbefore' = lbnext
    /\ IF ~lbstarted
       THEN lbstop' = "returned" /\ UNCHANGED lbdone
       ELSE lbstop' = "waiting" /\ lbdone' = TRUE
    /\ UNCHANGED <<lbuffer, lbmaxSize, lbstarted, lbnext, lbpending, lbinflight, lbloop,
                   lbstore, lbhanded, lbfailed>>
    /\ UNCHANGED notBatcher

\* Stop after b.wg.Wait(): the final flush
BatcherStopFlush ==
    /\ lbstop = "waiting"
    /\ lbloop = "exited"
    /\ IF lbuffer = <<>> THEN lbstop' = "returned" /\ UNCHANGED <<lbuffer, lbinflight>>
       ELSE flushLocked("stop") /\ lbstop' = "flushing"
    /\ UNCHANGED <<lbmaxSize, lbstarted, lbdone, lbnext, lbpending, lbloop, lbstore,
                   lbhanded, lbfailed, lbbefore>>
    /\ UNCHANGED notBatcher

NextBatcher ==
    \/ BatcherStart
    \/ BatcherAdd
    \/ BatcherAsyncFlush
    \/ BatcherTick
    \/ BatcherLoopDone
    \/ \E batch \in lbinflight, ok \in BOOLEAN : BatcherInsert(batch, ok)
    \/ BatcherStop
    \/ BatcherStopFlush

SpecBatcher == InitBatcher /\ [][NextBatcher]_vars

(***************************************************************************)
(* Log batcher: properties.                                                *)
(***************************************************************************)
\* C22: every added entry is written to the store at most once: no entry
\* appears twice, every row is an added entry, and the store has at most as
\* many rows as there were add() calls
C22_WrittenAtMostOnce ==
    /\ \A i, j \in 1..Len(lbstore) : lbstore[i] = lbstore[j] => i = j
    /\ \A i \in 1..Len(lbstore) : lbstore[i] \in 1..lbnext
    /\ Len(lbstore) <= lbnext

\* stop() has returned after rows were written by a size-triggered flush, by a
\* ticker flush and by the final flush
C22_StoppedAfterThreeFlushes ==
    /\ lbstop = "returned"
    /\ lbstarted
    /\ lbnext = MaxAdds
    /\ Len(lbstore) = MaxAdds
    /\ lbbefore = MaxAdds

\* C23: when stop() has returned, every entry added before stop() was called
\* has been handed to a batch insert and none of them is in the buffer
C23_StopDrains ==
    lbstop = "returned" =>
        \A e \in 1..lbbefore :
            /\ e \in lbhanded
            /\ \A i \in 1..Len(lbuffer) : lbuffer[i] # e

\* C31: the entries of a batch whose insert failed are in no row of the
\* table, at any later time, and are neither in the buffer nor in a batch
\* that a flush holds
C31_FailedBatchDropped ==
    \A e \in lbfailed :
        /\ \A i \in 1..Len(lbstore) : lbstore[i] # e
        /\ \A i \in 1..Len(lbuffer) : lbuffer[i] # e
        /\ \A b \in lbinflight : \A i \in 1..Len(b.logs) : b.logs[i] # e

\* the first two entries were in a batch that failed, and the entry added
\* after them has been written by a later flush
C31_FailedThenWritten ==
    /\ lbfailed = {1, 2}
    /\ lbstore = <<3>>
    /\ lbinflight = {}

\* C30: the buffer never holds more than maxSize entries
C30_BufferBounded == Len(lbuffer) <= lbmaxSize

(***************************************************************************)
(* RetryWithBackoff (common/helper/backoff.go).  fn returns nil, an error  *)
(* shouldRetry accepts ("retryable") or an error it rejects ("fatal"); a   *)
(* nil shouldRetry accepts every error.                                    *)
(***************************************************************************)
FnResults == {"nil", "retryable", "fatal"}

\* a check that never stops
rejectedNever(shouldRetryNil, err) == FALSE

\* shouldRetry != nil && !shouldRetry(err)
rejected(shouldRetryNil, err) == ~shouldRetryNil /\ err = "fatal"

\* the condition of the for loop
loopCondition(MaxRetries, attempt) == MaxRetries = 0 \/ attempt <= MaxRetries

InitRetry ==
    /\ ParkedMetrics
    /\ ParkedStats
    /\ ParkedHits
    /\ ParkedStream
    /\ ParkedQuota
    /\ ParkedResolve
    /\ ParkedWindow
    /\ ParkedDistribute
    /\ ParkedBreaker
    /\ ParkedHealth
    /\ ParkedRelay
    /\ ParkedDist
    /\ ParkedSelector
    /\ ParkedLimiter
    /\ ParkedCache
    /\ ParkedSemantic
    /\ ParkedBatcher
    /\ rbconfig \in [MaxRetries : -1..MaxRetriesBound, shouldRetryNil : BOOLEAN]
    /\ rbattempt = 0
    /\ rbpc = "loop"
    /\ rbresult = "none"
    /\ rbcalls = <<>>

\* the loop condition fails: return lastErr
RetryLoopExit ==
    /\ rbpc = "loop"
    /\ ~loopCondition(rbconfig.MaxRetries, rbattempt)
    /\ rbpc' = "returned"
    /\ rbresult' = IF rbcalls = <<>> THEN "nil" ELSE rbcalls[Len(rbcalls)]
    /\ UNCHANGED <<rbconfig, rbattempt, rbcalls>>
    /\ UNCHANGED notRetry

\* one pass of the loop body up to the return, the break or the sleep
RetryAttempt(err) ==
    /\ rbpc = "loop"
    /\ loopCondition(rbconfig.MaxRetries, rbattempt)
    /\ Len(rbcalls) < MaxFnCalls
    /\ rbcalls' = Append(rbcalls, err)
    /\ IF err = "nil"
       THEN rbpc' = "returned" /\ rbresult' = "nil"
       ELSE IF rejected(rbconfig.shouldRetryNil, err)
            THEN rbpc' = "returned" /\ rbresult' = err
       ELSE IF rbconfig.MaxRetries > 0 /\ rbattempt >= rbconfig.MaxRetries
            THEN rbpc' = "returned" /\ rbresult' = err
       ELSE rbpc' = "sleep" /\ UNCHANGED rbresult
    /\ UNCHANGED <<rbconfig, rbattempt>>
    /\ UNCHANGED notRetry

\* time.Sleep(backoff) ends; attempt++
RetrySleep ==
    /\ rbpc = "sleep"
    /\ rbpc' = "loop"
    /\ rbattempt' = rbattempt + 1
    /\ UNCHANGED <<rbconfig, rbresult, rbcalls>>
    /\ UNCHANGED notRetry

NextRetry ==
    \/ RetryLoopExit
    \/ \E err \in FnResults : RetryAttempt(err)
    \/ RetrySleep

SpecRetry == InitRetry /\ [][NextRetry]_vars

(***************************************************************************)
(* RetryWithBackoff: properties.                                           *)
(***************************************************************************)
\* the call of fn number i ended the retrying: success or a rejected error
Final(i) == rbcalls[i] = "nil" \/ (~rbconfig.shouldRetryNil /\ rbcalls[i] = "fatal")

\* fn is not called again after a final result, and a final result returns
StopsAtFirstFinal ==
    /\ \A i \in 1..(Len(rbcalls) - 1) : ~Final(i)
    /\ (rbcalls # <<>> /\ Final(Len(rbcalls))) =>
           (rbpc = "returned" /\ rbresult = rbcalls[Len(rbcalls)])

\* C24 as stated: for every MaxRetries the operation is invoked at most
\* MaxRetries + 1 times, and the retrying stops at the first success or
\* rejected error and returns
C24_AtMostMaxRetriesPlusOne ==
    /\ Len(rbcalls) <= rbconfig.MaxRetries + 1
    /\ StopsAtFirstFinal

\* C24 amended: for MaxRetries > 0 at most MaxRetries + 1 invocations, the last
\* of which returns; for MaxRetries < 0 none; MaxRetries = 0 sets no limit; in
\* every case the retrying stops at the first success or rejected error
C24_AtMostMaxRetriesPlusOneWhenPositive ==
    /\ rbconfig.MaxRetries > 0 =>
          /\ Len(rbcalls) <= rbconfig.MaxRetries + 1
          /\ Len(rbcalls) = rbconfig.MaxRetries + 1 => rbpc = "returned"
    /\ rbconfig.MaxRetries < 0 => rbcalls = <<>>
    /\ StopsAtFirstFinal

\* every allowed invocation failed with an error that is retried, and
\* RetryWithBackoff returned the last error
C24_RetriesExhausted ==
    /\ rbconfig.MaxRetries = MaxRetriesBound
    /\ Len(rbcalls) = MaxRetriesBound + 1
    /\ rbpc = "returned"
    /\ rbresult = "retryable"

(***************************************************************************)
(* The sliding-window script run by concurrent callers.  Each caller reads *)
(* its clock (SlidingWindowRateLimit: now := time.Now().UnixMilli()) and   *)
(* then has the server run the script, which runs atomically; the member   *)
(* added is now .. ':' .. math.random(1000000).                            *)
(***************************************************************************)
WCallers == {"c1", "c2"}
WindowMs == 2
WRandoms == {1, 2}

\* the script on the sorted set of the key: the set it leaves and its reply
slidingWindowScript(zset, nowMs, windowMs, maxRequests, rnd) ==
    LET kept == {mb \in zset : mb[1] > nowMs - windowMs}
        oldest == IF kept = {} THEN nowMs
                  ELSE CHOOSE score \in {mb[1] : mb \in kept} :
                          \A mb \in kept : score <= mb[1]
        resetAt == oldest + windowMs
    IN  IF Cardinality(kept) < maxRequests
        THEN [zset |-> kept \cup {<<nowMs, rnd>>},
              reply |-> <<1, maxRequests - Cardinality(kept) - 1, resetAt>>,
              countBefore |-> Cardinality(kept)]
        ELSE [zset |-> kept, reply |-> <<0, 0, resetAt>>,
              countBefore |-> Cardinality(kept)]

InitWindow ==
    /\ ParkedMetrics
    /\ ParkedStats
    /\ ParkedHits
    /\ ParkedStream
    /\ ParkedQuota
    /\ ParkedResolve
    /\ ParkedBreaker
    /\ ParkedHealth
    /\ ParkedRelay
    /\ ParkedDist
    /\ ParkedSelector
    /\ ParkedLimiter
    /\ ParkedCache
    /\ ParkedSemantic
    /\ ParkedBatcher
    /\ ParkedRetry
    /\ ParkedDistribute
    /\ wclock = 0
    /\ wmax \in {1, 2}
    /\ wzset = {}
    /\ wcall = [p \in WCallers |-> [reading |-> FALSE, now |-> 0]]
    /\ wcalls = 0
    /\ whist = <<>>

WindowTick ==
    /\ wclock < MaxWindowTime
    /\ wclock' = wclock + 1
    /\ UNCHANGED <<wmax, wzset, wcall, wcalls, whist>>
    /\ UNCHANGED notWindow

\* the caller reads its clock
WindowNow(p) ==
    /\ ~wcall[p].reading
    /\ wcalls + Cardinality({q \in WCallers : wcall[q].reading}) < MaxWindowCalls
    /\ wcall' = [wcall EXCEPT ![p] = [reading |-> TRUE, now |-> wclock]]
    /\ UNCHANGED <<wclock, wmax, wzset, wcalls, whist>>
    /\ UNCHANGED notWindow

\* the server runs the script for the caller
WindowRunScript(p, rnd) ==
    /\ wcall[p].reading
    /\ LET r == slidingWindowScript(wzset, wcall[p].now, WindowMs, wmax, rnd)
       IN  /\ wzset' = r.zset
           /\ whist' = IF r.reply[1] = 1
                       THEN Append(whist, [now |-> wcall[p].now, at |-> wclock,
                                           remaining |-> r.reply[2],
                                           countBefore |-> r.countBefore])
                       ELSE whist
    /\ wcall' = [wcall EXCEPT ![p].reading = FALSE]
    /\ wcalls' = wcalls + 1
    /\ UNCHANGED <<wclock, wmax>>
    /\ UNCHANGED notWindow

NextWindow ==
    \/ WindowTick
    \/ \E p \in WCallers : WindowNow(p)
    \/ \E p \in WCallers, rnd \in WRandoms : WindowRunScript(p, rnd)

SpecWindow == InitWindow /\ [][NextWindow]_vars

(***************************************************************************)
(* The sliding-window script: properties.                                  *)
(***************************************************************************)
\* C27: in every interval of the length of the window at most max_requests
\* runs are answered allowed, and every allowed run reports
\* remaining = max_requests - (count before insertion) - 1
C27_AtMostMaxAllowedPerWindow ==
    /\ \A t \in 0..MaxWindowTime :
          Cardinality({i \in 1..Len(whist) :
                          whist[i].at >= t /\ whist[i].at < t + WindowMs}) <= wmax
    /\ \A i \in 1..Len(whist) :
          whist[i].remaining = wmax - whist[i].countBefore - 1

(***************************************************************************)
(* Distributor.  The channel store, the channel cache's sync, the fallback *)
(* query and the reporting of upstream results to the breaker manager are  *)
(* outside the files at hand and follow the specification.                 *)
(***************************************************************************)
\* the breaker settings of the circuit-breaker scenario (maxFailures = 2)
DistSettings ==
    [MaxFailures |-> 2, FailureRatio |-> <<1, 2>>, MinSamples |-> 10,
     Timeout |-> 30, HalfOpenMaxRequests |-> 3, SuccessThreshold |-> 2]

Enabled == {c \in DChans : chStatus[c] = "enabled"}

\* the enabled channels ordered by descending priority, then by id
SortedEnabled ==
    LET top == {c \in Enabled : channelPriority[c] > 0}
        low == Enabled \ top
        asSeq(S) == IF S = {} THEN <<>>
                    ELSE LET a == CHOOSE x \in S : \A y \in S : x <= y
                             b == S \ {a}
                         IN  IF b = {} THEN <<a>>
                             ELSE LET a2 == CHOOSE x \in b : \A y \in b : x <= y
                                  IN  IF b \ {a2} = {} THEN <<a, a2>>
                                      ELSE <<a, a2>> \o <<CHOOSE x \in b \ {a2} : TRUE>>
    IN  asSeq(top) \o asSeq(low)

\* GetRandomSatisfiedChannel / CacheGetRandomSatisfiedChannel: a random enabled
\* channel of the highest priority present
RandomSatisfiedChannels ==
    {c \in Enabled : \A d \in Enabled : channelPriority[c] >= channelPriority[d]}

\* CacheGetHealthiestChannel and, on its error, the random fallback
HealthiestChannels ==
    IF Len(snapshot) = 0
    THEN RandomSatisfiedChannels
    ELSE SelectChannelWithPriority(snapshot, FALSE, dhealth)

\* c.Next() after SetupContextForSelectedChannel
dispatchTo(c, path) ==
    [code |-> "next", path |-> path, channel |-> c, status |-> chStatus[c],
     breaker |-> dbreakers[c].state, reported |-> FALSE]

abortWithMessage(code, path) ==
    [code |-> code, path |-> path, channel |-> 0, status |-> "none",
     breaker |-> "none", reported |-> TRUE]

InitDist ==
    /\ ParkedMetrics
    /\ ParkedStats
    /\ ParkedHits
    /\ ParkedStream
    /\ ParkedQuota
    /\ ParkedResolve
    /\ ParkedWindow
    /\ ParkedDistribute
    /\ ParkedRetry
    /\ ParkedBatcher
    /\ ParkedSemantic
    /\ ParkedCache
    /\ ParkedLimiter
    /\ ParkedSelector
    /\ ParkedBreaker
    /\ ParkedHealth
    /\ ParkedRelay
    /\ chStatus \in [DChans -> {"enabled", "disabled"}]
    /\ snapshot = SortedEnabled
    /\ dbreakers = [c \in DChans |-> New(0)]
    /\ dhealth = [c \in DChans |-> NewChannelHealth(c)]
    /\ dlast = NoDispatch
    /\ dcount = 0

\* strconv.Atoi on the Specific-Channel-Id strings used here; -1 stands for the
\* error it returns for a string that is not a number
Atoi(str) ==
    CASE str = "0" -> 0
      [] str = "1" -> 1
      [] str = "2" -> 2
      [] str = "3" -> 3
      [] OTHER -> -1

\* Distribute with a Specific-Channel-Id in the context; no channel has id 0
DistributeSpecific(specific) ==
    /\ dcount < MaxDispatch
    /\ dlast.reported
    /\ dcount' = dcount + 1
    /\ dlast' = IF Atoi(specific) = -1 \/ Atoi(specific) \notin DChans
                THEN abortWithMessage("400", "specific")
                ELSE IF chStatus[Atoi(specific)] # "enabled"
                     THEN abortWithMessage("403", "specific")
                     ELSE dispatchTo(Atoi(specific), "specific")
    /\ UNCHANGED <<chStatus, snapshot, dbreakers, dhealth>>
    /\ UNCHANGED notDist

\* Distribute for a virtual model that automodel.Resolve resolves to a channel of
\* getAvailableChannels (an enabled channel of the group)
DistributeVirtual(resolved) ==
    /\ dcount < MaxDispatch
    /\ dlast.reported
    /\ resolved \in Enabled
    /\ dcount' = dcount + 1
    /\ dlast' = dispatchTo(resolved, "virtual")
    /\ UNCHANGED <<chStatus, snapshot, dbreakers, dhealth>>
    /\ UNCHANGED notDist

\* Distribute for a concrete model, or a virtual one that did not resolve:
\* health-based selection, the random fallback, or 503
DistributeHealthiest ==
    /\ dcount < MaxDispatch
    /\ dlast.reported
    /\ dcount' = dcount + 1
    /\ IF HealthiestChannels = {}
       THEN dlast' = abortWithMessage("503", "health")
       ELSE \E c \in HealthiestChannels : dlast' = dispatchTo(c, "health")
    /\ UNCHANGED <<chStatus, snapshot, dbreakers, dhealth>>
    /\ UNCHANGED notDist

\* the upstream answers the dispatched request; the result is recorded in the
\* channel's health record and reported to its breaker
UpstreamResult(success, latency) ==
    /\ ~dlast.reported
    /\ dhealth' = [dhealth EXCEPT ![dlast.channel] =
                        RecordChannelResult(@, success, latency)]
    /\ dbreakers' = [dbreakers EXCEPT ![dlast.channel] =
                        IF success THEN recordSuccess(@, DistSettings, 0)
                                   ELSE recordFailure(@, DistSettings, 0)]
    /\ dlast' = [dlast EXCEPT !.reported = TRUE]
    /\ UNCHANGED <<chStatus, snapshot, dcount>>
    /\ UNCHANGED notDist

\* an administrator enables or disables a channel
SetChannelStatus(c, st) ==
    /\ chStatus[c] # st
    /\ chStatus' = [chStatus EXCEPT ![c] = st]
    /\ UNCHANGED <<snapshot, dbreakers, dhealth, dlast, dcount>>
    /\ UNCHANGED notDist

\* the sync ticker rebuilds the channel cache from the enabled channels
SyncChannels ==
    /\ snapshot # SortedEnabled
    /\ snapshot' = SortedEnabled
    /\ UNCHANGED <<chStatus, dbreakers, dhealth, dlast, dcount>>
    /\ UNCHANGED notDist

NextDist ==
    \/ \E specific \in {"abc", "0", "1", "2", "3"} : DistributeSpecific(specific)
    \/ \E resolved \in DChans : DistributeVirtual(resolved)
    \/ DistributeHealthiest
    \/ \E success \in BOOLEAN, latency \in Latencies : UpstreamResult(success, latency)
    \/ \E c \in DChans, st \in {"enabled", "disabled"} : SetChannelStatus(c, st)
    \/ SyncChannels

SpecDist == InitDist /\ [][NextDist]_vars

(***************************************************************************)
(* Distributor: properties.                                                *)
(***************************************************************************)
\* C2: a request is handed on only to a channel whose status is enabled and
\* whose circuit breaker is not OPEN
C2_DispatchOnlyEnabledNotOpen ==
    dlast.code = "next" =>
        /\ dlast.status = "enabled"
        /\ dlast.breaker # StateOpen

(***************************************************************************)
(* Distribute (middleware/distributor.go) with the virtual-model resolver  *)
(* (automodel.Resolve), for one user group.  The channel store, the cache  *)
(* of channels per model and its sync, CacheGetHealthiestChannel and the   *)
(* random fallback are outside the files at hand and follow the           *)
(* specification.  Resolve takes any option as the best scored one.        *)
(***************************************************************************)
XChans == {1, 2}
XModels == {"gpt-4o", "gpt-4o-mini"}
XRequestModels == {"auto", "Auto", "gpt-4o", "gpt-4o-mini"}
XSpecifics == {"abc", "0", "1", "2"}

\* strings.ToLower on the requested model names
LowerName(name) == IF name = "Auto" THEN "auto" ELSE name

\* IsVirtualModel: the names of the strategies map
IsVirtualModel(modelName) ==
    LowerName(modelName) \in {"auto", "auto-fast", "auto-cheap", "auto-vi", "auto-code",
                              "auto-smart"}

\* getAvailableChannels(group): the enabled channels of the group
getAvailableChannels == {c \in XChans : dxStatus[c] = "enabled"}

\* the results Resolve may return: an error for an unknown virtual model, for no
\* available channel and for no model on any of them, otherwise an option
Resolve(virtualModel) ==
    IF ~IsVirtualModel(virtualModel) \/ getAvailableChannels = {}
          \/ \A c \in getAvailableChannels : dxModels[c] = {}
    THEN {[err |-> TRUE, SelectedModel |-> "", ChannelID |-> 0]}
    ELSE {r \in [err : {FALSE}, SelectedModel : XModels, ChannelID : XChans] :
            /\ r.ChannelID \in getAvailableChannels
            /\ r.SelectedModel \in dxModels[r.ChannelID]}

\* the model that stays requested when the resolver gave no channel
requestModelKept(requestModel, result) == requestModel

\* requestModel after Resolve: the safe fallback on an error
requestModelAfterResolve(requestModel, result) ==
    IF result.err THEN "gpt-4o-mini" ELSE result.SelectedModel

\* the channels of the store that serve a model, sorted by priority then id
ChannelsServing(md) ==
    LET S == {c \in XChans : dxStatus[c] = "enabled" /\ md \in dxModels[c]}
    IN  IF S = {} THEN <<>>
        ELSE IF Cardinality(S) = 1 THEN <<CHOOSE c \in S : TRUE>>
        ELSE IF channelPriority[1] >= channelPriority[2] THEN <<1, 2>> ELSE <<2, 1>>

\* CacheGetHealthiestChannel and, on its error, CacheGetRandomSatisfiedChannel:
\* the channels the selection may give for a model; none means 503
SelectorChannels(md) ==
    IF md \notin DOMAIN dxCache \/ Len(dxCache[md]) = 0
    THEN {c \in XChans : dxStatus[c] = "enabled" /\ md \in dxModels[c]}
    ELSE SelectChannelWithPriority(dxCache[md], FALSE,
                                   [c \in SChans |-> NewChannelHealth(c)])

\* a specific-channel branch that does not look at the status
specificChannelAnyStatus(specific) ==
    IF Atoi(specific) = -1 \/ Atoi(specific) \notin XChans THEN "400" ELSE "next"

\* the Specific-Channel-Id branch: 400, 403 or the dispatch
specificChannel(specific) ==
    IF Atoi(specific) = -1 \/ Atoi(specific) \notin XChans THEN "400"
    ELSE IF dxStatus[Atoi(specific)] # "enabled" THEN "403"
    ELSE "next"

InitDistribute ==
    /\ ParkedMetrics
    /\ ParkedStats
    /\ ParkedHits
    /\ ParkedStream
    /\ ParkedQuota
    /\ ParkedResolve
    /\ ParkedWindow
    /\ ParkedBreaker
    /\ ParkedHealth
    /\ ParkedRelay
    /\ ParkedDist
    /\ ParkedSelector
    /\ ParkedLimiter
    /\ ParkedCache
    /\ ParkedSemantic
    /\ ParkedBatcher
    /\ ParkedRetry
    /\ dxStatus \in [XChans -> {"enabled", "disabled"}]
    /\ dxModels \in [XChans -> {{}, {"gpt-4o-mini"}, XModels}]
    /\ dxCache = [md \in XModels |-> ChannelsServing(md)]
    /\ resolverEnabled \in BOOLEAN
    /\ dxLast = NoDistribute
    /\ dxCount = 0

\* Distribute with the Specific-Channel-Id key in the context
DistributeSpecificChannel(specific, requestModel) ==
    /\ dxCount < MaxDistribute
    /\ dxCount' = dxCount + 1
    /\ dxLast' = [NoDistribute EXCEPT
                     !.called = TRUE, !.specificPresent = TRUE, !.specific = specific,
                     !.statusThen = IF Atoi(specific) \in XChans
                                    THEN dxStatus[Atoi(specific)] ELSE "none",
                     !.requestModel = requestModel,
                     !.code = specificChannel(specific),
                     !.channel = IF specificChannel(specific) = "next"
                                 THEN Atoi(specific) ELSE 0]
    /\ UNCHANGED <<dxStatus, dxModels, dxCache, resolverEnabled>>
    /\ UNCHANGED notDistribute

\* the selector part of Distribute for requestModel; base holds what happened
\* before it
selectChannel(base, requestModel) ==
    IF SelectorChannels(requestModel) = {}
    THEN dxLast' = [base EXCEPT !.selectorRan = TRUE, !.selectorModel = requestModel,
                                !.code = "503"]
    ELSE \E c \in SelectorChannels(requestModel) :
            dxLast' = [base EXCEPT !.selectorRan = TRUE, !.selectorModel = requestModel,
                                   !.code = "next", !.channel = c,
                                   !.setupModel = requestModel]

\* Distribute without the Specific-Channel-Id key
DistributeModel(requestModel) ==
    /\ dxCount < MaxDistribute
    /\ dxCount' = dxCount + 1
    /\ LET base == [NoDistribute EXCEPT !.called = TRUE, !.requestModel = requestModel]
       IN  IF resolverEnabled /\ IsVirtualModel(requestModel)
           THEN \E result \in Resolve(requestModel) :
                   IF result.err
                   THEN selectChannel([base EXCEPT !.resolverRan = TRUE,
                                                   !.resolveErr = TRUE],
                                      requestModelAfterResolve(requestModel, result))
                   ELSE dxLast' = [base EXCEPT !.resolverRan = TRUE, !.headers = TRUE,
                                       !.code = "next", !.channel = result.ChannelID,
                                       !.setupModel =
                                           requestModelAfterResolve(requestModel, result)]
           ELSE selectChannel(base, requestModel)
    /\ UNCHANGED <<dxStatus, dxModels, dxCache, resolverEnabled>>
    /\ UNCHANGED notDistribute

\* an administrator enables or disables a channel
DistributeSetStatus(c, st) ==
    /\ dxStatus[c] # st
    /\ dxStatus' = [dxStatus EXCEPT ![c] = st]
    /\ UNCHANGED <<dxModels, dxCache, resolverEnabled, dxLast, dxCount>>
    /\ UNCHANGED notDistribute

\* the sync rebuilds the cache of channels per model
DistributeSync ==
    /\ dxCache # [md \in XModels |-> ChannelsServing(md)]
    /\ dxCache' = [md \in XModels |-> ChannelsServing(md)]
    /\ UNCHANGED <<dxStatus, dxModels, resolverEnabled, dxLast, dxCount>>
    /\ UNCHANGED notDistribute

NextDistribute ==
    \/ \E specific \in XSpecifics, requestModel \in XRequestModels :
          DistributeSpecificChannel(specific, requestModel)
    \/ \E requestModel \in XRequestModels : DistributeModel(requestModel)
    \/ \E c \in XChans, st \in {"enabled", "disabled"} : DistributeSetStatus(c, st)
    \/ DistributeSync

SpecDistribute == InitDistribute /\ [][NextDistribute]_vars

(***************************************************************************)
(* Distribute: properties.                                                 *)
(***************************************************************************)
\* C25: when the resolution of a virtual model fails, the request goes on to
\* the channel selector with the fallback model gpt-4o-mini, is not rejected
\* before the selector, and no X-Auto-* header is set
C25_ResolveFailureFallsBack ==
    (dxLast.called /\ dxLast.resolverRan /\ dxLast.resolveErr) =>
        /\ dxLast.selectorRan
        /\ dxLast.selectorModel = "gpt-4o-mini"
        /\ ~dxLast.headers
        /\ dxLast.code \in {"next", "503"}
        /\ dxLast.code = "next" => dxLast.setupModel = "gpt-4o-mini"

\* the resolution of a virtual model failed and the request was dispatched to
\* a channel for gpt-4o-mini
C25_FallbackDispatched ==
    /\ dxLast.called
    /\ dxLast.resolveErr
    /\ dxLast.code = "next"
    /\ dxLast.channel \in XChans
    /\ dxLast.requestModel \in {"auto", "Auto"}

\* C26: with the Specific-Channel-Id key present neither the resolver nor the
\* selector runs; the answer is 400 when the id is not a number or names no
\* channel, 403 when the channel is not enabled, and otherwise the request is
\* dispatched to exactly that channel
C26_SpecificChannelOnly ==
    (dxLast.called /\ dxLast.specificPresent) =>
        /\ ~dxLast.resolverRan
        /\ ~dxLast.selectorRan
        /\ ~dxLast.headers
        /\ IF dxLast.specific \notin {"1", "2"} THEN dxLast.code = "400"
           ELSE IF dxLast.statusThen # "enabled" THEN dxLast.code = "403"
           ELSE /\ dxLast.code = "next"
                /\ dxLast.specific = "1" => dxLast.channel = 1
                /\ dxLast.specific = "2" => dxLast.channel = 2

\* a request for a virtual model with the key naming a disabled channel was
\* answered 403
C26_DisabledRejected ==
    /\ dxLast.called
    /\ dxLast.specificPresent
    /\ dxLast.requestModel = "auto"
    /\ resolverEnabled
    /\ dxLast.code = "403"

(***************************************************************************)
(* automodel.Resolve as a function of the channel store, the health        *)
(* tracker and the request.  Scores are in integers: quality, health and   *)
(* cost scores in thousandths, strategy weights in hundredths, the         *)
(* priority factor in tenths.  model.GetAllChannels is outside the files   *)
(* at hand and follows the specification: scope "enabled" gives the        *)
(* enabled channels.                                                       *)
(***************************************************************************)
AChans == {1, 2}
AGroupStrings == {<<"default">>, <<"vip", " default">>, <<"vip">>}
AModelStrings == {<<>>, <<"gpt-4o">>, <<"gpt-4o-mini", " gpt-4o", "">>}

\* strings.TrimSpace on the parts that occur
TrimSpace(part) ==
    CASE part = " default" -> "default"
      [] part = " gpt-4o" -> "gpt-4o"
      [] OTHER -> part

\* GetAllChannels(0, 0, "enabled")
GetAllChannelsEnabled(store) == {c \in DOMAIN store : store[c].Status = "enabled"}

\* a group test that takes every channel
containsGroupAny(groupStr, target) == TRUE

\* containsGroup(groupStr, target), groupStr split at the commas
containsGroup(groupStr, target) ==
    \E i \in 1..Len(groupStr) : TrimSpace(groupStr[i]) = target

\* getAvailableChannels(group)
availableChannels(store, group) ==
    {c \in GetAllChannelsEnabled(store) : containsGroup(store[c].Group, group)}

\* getChannelModels(channel): the trimmed parts that are not empty
getChannelModels(channel) ==
    {TrimSpace(channel.Models[i]) : i \in 1..Len(channel.Models)} \ {""}

\* strategies: Quality, Speed, Cost
strategies(name) ==
    CASE name = "auto" -> [Quality |-> 40, Speed |-> 30, Cost |-> 30]
      [] name = "auto-cheap" -> [Quality |-> 20, Speed |-> 20, Cost |-> 60]
      [] name = "auto-vi" -> [Quality |-> 50, Speed |-> 20, Cost |-> 30]

strategyNames == {"auto", "auto-cheap", "auto-vi"}

\* getQualityScore: vietnameseScores for Vietnamese requests, else the tier
getQualityScore(modelName, language) ==
    IF language = "vi"
    THEN (IF modelName = "gpt-4o" THEN 950 ELSE 910)
    ELSE (IF modelName = "gpt-4o" THEN 950 ELSE 750)

\* getCostScore: 1 / (1 + ratio), ratio 1.0 for gpt-4o and 0.1 for gpt-4o-mini
getCostScore(modelName) == IF modelName = "gpt-4o" THEN 500 ELSE 909

\* calculateScore(channel, modelName, strategy, features)
calculateScore(channel, health, modelName, strategy, language) ==
    LET score == getQualityScore(modelName, language) * strategy.Quality
                   + health * strategy.Speed
                   + getCostScore(modelName) * strategy.Cost
        weighted == IF channel.Weight > 0 THEN score * channel.Weight ELSE score
    IN  IF channel.Priority > 0 THEN weighted * (10 + channel.Priority)
        ELSE weighted * 10

\* the options Resolve scores: every model of every available channel
scoredOptions(store, health, req) ==
    LET strategy == IF req.language = "vi" THEN strategies("auto-vi")
                    ELSE strategies(req.virtualModel)
    IN  UNION {{[channel |-> c, model |-> md,
                 score |-> calculateScore(store[c], health[c], md, strategy,
                                          req.language)] :
                   md \in getChannelModels(store[c])} :
               c \in availableChannels(store, req.group)}

\* sort.Slice by score descending and options[0]: an option that no other
\* option outscores; the sort is not stable, so any of those
bestOptions(options) == {o \in options : \A other \in options : o.score >= other.score}

\* Resolve(ctx, virtualModel, group, messages): the results it may return
ResolveScored(store, health, req) ==
    IF req.virtualModel \notin strategyNames
       \/ availableChannels(store, req.group) = {}
       \/ scoredOptions(store, health, req) = {}
    THEN {[called |-> TRUE, err |-> TRUE, SelectedModel |-> "", ChannelID |-> 0,
           Score |-> 0]}
    ELSE {[called |-> TRUE, err |-> FALSE, SelectedModel |-> best.model,
           ChannelID |-> best.channel, Score |-> best.score] :
             best \in bestOptions(scoredOptions(store, health, req))}

InitResolve ==
    /\ ParkedMetrics
    /\ ParkedStats
    /\ ParkedHits
    /\ ParkedStream
    /\ ParkedQuota
    /\ ParkedWindow
    /\ ParkedBreaker
    /\ ParkedHealth
    /\ ParkedRelay
    /\ ParkedDist
    /\ ParkedSelector
    /\ ParkedLimiter
    /\ ParkedCache
    /\ ParkedSemantic
    /\ ParkedBatcher
    /\ ParkedRetry
    /\ ParkedDistribute
    /\ avStore \in [AChans -> [Status : {"enabled", "disabled"}, Group : AGroupStrings,
                               Models : AModelStrings, Weight : {0}, Priority : {0, 1}]]
                   \cup [AChans -> [Status : {"enabled"}, Group : {<<"vip", " default">>},
                                    Models : AModelStrings, Weight : {2}, Priority : {0}]]
    /\ avHealth \in {[c \in AChans |-> 800], [c \in AChans |-> IF c = 1 THEN 400 ELSE 1000]}
    /\ avReq \in [virtualModel : {"auto", "auto-cheap", "gpt-4o"}, group : {"default", "vip"},
                  language : {"en", "vi"}]
    /\ avResult = NoResolve

\* one call of Resolve
ResolveCall ==
    /\ ~avResult.called
    /\ avResult' \in ResolveScored(avStore, avHealth, avReq)
    /\ UNCHANGED <<avStore, avHealth, avReq>>
    /\ UNCHANGED notResolve

NextResolve == ResolveCall

SpecResolve == InitResolve /\ [][NextResolve]_vars

\* the (channel, model) candidates of a request, with their scores
Candidates ==
    {o \in [channel : AChans, model : {"gpt-4o", "gpt-4o-mini"}] :
        /\ avStore[o.channel].Status = "enabled"
        /\ \E i \in 1..Len(avStore[o.channel].Group) :
              TrimSpace(avStore[o.channel].Group[i]) = avReq.group
        /\ \E i \in 1..Len(avStore[o.channel].Models) :
              TrimSpace(avStore[o.channel].Models[i]) = o.model}

CandidateScore(o) ==
    calculateScore(avStore[o.channel], avHealth[o.channel], o.model,
                   IF avReq.language = "vi" THEN strategies("auto-vi")
                   ELSE strategies(avReq.virtualModel),
                   avReq.language)

\* C32: when Resolve succeeds the channel returned is enabled and of the
\* caller's group, the model returned is on the channel's model list, and the
\* score returned is that of the pair and at least that of every candidate
C32_ResolveReturnsBest ==
    avResult.called /\ ~avResult.err =>
        /\ [channel |-> avResult.ChannelID, model |-> avResult.SelectedModel] \in Candidates
        /\ \A o \in Candidates : avResult.Score >= CandidateScore(o)

\* Resolve has chosen between two channels of the group, the one chosen with
\* a strictly higher score than a model of the other
C32_ChosenAmongTwoChannels ==
    /\ avResult.called
    /\ ~avResult.err
    /\ \E o \in Candidates :
          /\ o.channel # avResult.ChannelID
          /\ CandidateScore(o) < avResult.Score

(***************************************************************************)
(* AtomicDecrementQuota (common/redis_scripts.go) by concurrent callers on *)
(* one key.  Redis runs a script as one step; a call is sent, run and      *)
(* answered, and the scripts of the callers run in any order.              *)
(***************************************************************************)
QCallers == {"c1", "c2"}
QAmounts == {-1, 1, 2}
QMinValues == {-1, 0, 1}
QInitials == {[exists |-> FALSE, val |-> 0]} \cup [exists : {TRUE}, val : 0..3]

NoQuotaCall == [pc |-> "idle", amount |-> 0, minValue |-> 0, old |-> [exists |-> FALSE, val |-> 0],
                after |-> [exists |-> FALSE, val |-> 0], reply |-> <<>>]

\* a script that decrements whatever the minimum is
decrementQuotaScriptNoFloor(key, decrement, min_value) ==
    IF ~key.exists THEN [key |-> key, reply |-> <<IntValue(-1), IntValue(0)>>]
    ELSE [key |-> [key EXCEPT !.val = key.val - decrement],
          reply |-> <<IntValue(key.val - decrement), IntValue(1)>>]

\* decrementQuotaScript: the key afterwards and the reply
decrementQuotaScript(key, decrement, min_value) ==
    IF ~key.exists THEN [key |-> key, reply |-> <<IntValue(-1), IntValue(0)>>]
    ELSE LET new_value == key.val - decrement
         IN  IF new_value < min_value
             THEN [key |-> key, reply |-> <<IntValue(key.val), IntValue(0)>>]
             ELSE [key |-> [key EXCEPT !.val = key.val - decrement],
                   reply |-> <<IntValue(new_value), IntValue(1)>>]

InitQuota ==
    /\ ParkedMetrics
    /\ ParkedStats
    /\ ParkedHits
    /\ ParkedStream
    /\ ParkedResolve
    /\ ParkedWindow
    /\ ParkedBreaker
    /\ ParkedHealth
    /\ ParkedRelay
    /\ ParkedDist
    /\ ParkedSelector
    /\ ParkedLimiter
    /\ ParkedCache
    /\ ParkedSemantic
    /\ ParkedBatcher
    /\ ParkedRetry
    /\ ParkedDistribute
    /\ qenabled \in BOOLEAN
    /\ qkey \in QInitials
    /\ qinitial = qkey
    /\ qcall = [p \in QCallers |-> NoQuotaCall]
    /\ qcalls = 0
    /\ qhist = <<>>

\* AtomicDecrementQuota(ctx, key, amount, minValue) up to RunScript; without
\* Redis it returns (0, false, nil) at once
QuotaCall(p, amount, minValue) ==
    /\ qcall[p].pc = "idle"
    /\ qcalls < MaxQuotaCalls
    /\ qcalls' = qcalls + 1
    /\ IF ~qenabled
       THEN /\ qhist' = Append(qhist, [ran |-> FALSE, amount |-> amount,
                                       minValue |-> minValue, old |-> qkey,
                                       after |-> qkey, newValue |-> 0,
                                       wasUpdated |-> FALSE])
            /\ UNCHANGED qcall
       ELSE /\ qcall' = [qcall EXCEPT ![p] = [NoQuotaCall EXCEPT !.pc = "sent",
                                                !.amount = amount,
                                                !.minValue = minValue]]
            /\ UNCHANGED qhist
    /\ UNCHANGED <<qenabled, qkey, qinitial>>
    /\ UNCHANGED notQuota

\* the server runs the script of caller p
QuotaRunScript(p) ==
    /\ qcall[p].pc = "sent"
    /\ LET r == decrementQuotaScript(qkey, qcall[p].amount, qcall[p].minValue)
       IN  /\ qkey' = r.key
           /\ qcall' = [qcall EXCEPT ![p].pc = "run", ![p].old = qkey,
                                     ![p].after = r.key, ![p].reply = r.reply]
    /\ UNCHANGED <<qenabled, qinitial, qcalls, qhist>>
    /\ UNCHANGED notQuota

\* AtomicDecrementQuota after RunScript: newValue and wasUpdated of the reply
QuotaReturn(p) ==
    /\ qcall[p].pc = "run"
    /\ qhist' = Append(qhist, [ran |-> TRUE, amount |-> qcall[p].amount,
                               minValue |-> qcall[p].minValue, old |-> qcall[p].old,
                               after |-> qcall[p].after,
                               newValue |-> toInt64(qcall[p].reply[1]),
                               wasUpdated |-> toInt64(qcall[p].reply[2]) = 1])
    /\ qcall' = [qcall EXCEPT ![p] = NoQuotaCall]
    /\ UNCHANGED <<qenabled, qkey, qinitial, qcalls>>
    /\ UNCHANGED notQuota

NextQuota ==
    \/ \E p \in QCallers, amount \in QAmounts, minValue \in QMinValues :
          QuotaCall(p, amount, minValue)
    \/ \E p \in QCallers : QuotaRunScript(p)
    \/ \E p \in QCallers : QuotaReturn(p)

SpecQuota == InitQuota /\ [][NextQuota]_vars

RECURSIVE SumUpdated(_)
SumUpdated(hist) ==
    IF hist = <<>> THEN 0
    ELSE (IF hist[1].wasUpdated THEN hist[1].amount ELSE 0) + SumUpdated(Tail(hist))

\* C33: a call on a stored value returns wasUpdated exactly when old - amount
\* >= minValue, then with newValue = old - amount stored, which is not below
\* its minValue; otherwise it leaves the value as it was; and once every call
\* has returned the value is the initial one minus the amounts of the calls
\* that returned wasUpdated
C33_DecrementAtomic ==
    /\ \A i \in 1..Len(qhist) :
          LET h == qhist[i]
          IN  /\ h.ran /\ h.old.exists =>
                    (h.wasUpdated <=> h.old.val - h.amount >= h.minValue)
              /\ h.wasUpdated =>
                    /\ h.newValue = h.old.val - h.amount
                    /\ h.after = [exists |-> TRUE, val |-> h.newValue]
                    /\ h.after.val >= h.minValue
              /\ ~h.wasUpdated => h.after = h.old
    /\ (\A p \in QCallers : qcall[p].pc = "idle") =>
          /\ qkey.exists = qinitial.exists
          /\ qkey.val = qinitial.val - SumUpdated(qhist)

\* two callers' scripts ran one after the other before either returned: the
\* first took the value to its minimum and the second was refused
C33_SecondRefused ==
    /\ Len(qhist) >= 2
    /\ qhist[1].wasUpdated
    /\ qhist[1].after.val = qhist[1].minValue
    /\ ~qhist[2].wasUpdated
    /\ qhist[2].ran
    /\ qhist[2].amount > 0
    /\ qhist[2].old = qhist[1].after
    /\ qhist[2].minValue = qhist[1].minValue

(***************************************************************************)
(* CaptureAndCacheStream line by line, with a client that may disconnect   *)
(* and an upstream read that may fail.  The result of WriteString is not   *)
(* looked at, so a write to a client that is gone changes nothing; the     *)
(* loop ends when the scanner does.                                        *)
(***************************************************************************)
\* c.Writer.WriteString(line + "\n"): the lines the client has received
\* afterwards
WriteString(delivered, connected) == IF connected THEN delivered + 1 ELSE delivered

InitStream ==
    /\ ParkedMetrics
    /\ ParkedStats
    /\ ParkedHits
    /\ ParkedQuota
    /\ ParkedResolve
    /\ ParkedWindow
    /\ ParkedBreaker
    /\ ParkedHealth
    /\ ParkedRelay
    /\ ParkedDist
    /\ ParkedSelector
    /\ ParkedLimiter
    /\ ParkedCache
    /\ ParkedSemantic
    /\ ParkedBatcher
    /\ ParkedRetry
    /\ ParkedDistribute
    /\ stLines \in 0..MaxStreamLines
    /\ stRead = 0
    /\ stBuffered = 0
    /\ stDelivered = 0
    /\ stConnected = TRUE
    /\ stPc = "scanning"
    /\ stStore = -1

\* scanner.Scan() gives a line: it is written to the client and to the buffer
StreamScanLine ==
    /\ stPc = "scanning"
    /\ stRead < stLines
    /\ stRead' = stRead + 1
    /\ stDelivered' = WriteString(stDelivered, stConnected)
    /\ stBuffered' = stBuffered + 1
    /\ UNCHANGED <<stLines, stConnected, stPc, stStore>>
    /\ UNCHANGED notStream

\* scanner.Scan() ends with an error of the upstream read: the error is returned
StreamReadError ==
    /\ stPc = "scanning"
    /\ stPc' = "failed"
    /\ UNCHANGED <<stLines, stRead, stBuffered, stDelivered, stConnected, stStore>>
    /\ UNCHANGED notStream

\* scanner.Scan() ends at the end of the body: the goroutine that stores the
\* buffer is started
StreamEnd ==
    /\ stPc = "scanning"
    /\ stRead = stLines
    /\ stPc' = "done"
    /\ stStore' = stBuffered
    /\ UNCHANGED <<stLines, stRead, stBuffered, stDelivered, stConnected>>
    /\ UNCHANGED notStream

\* the client closes the connection
ClientDisconnect ==
    /\ stPc = "scanning"
    /\ stConnected
    /\ stConnected' = FALSE
    /\ UNCHANGED <<stLines, stRead, stBuffered, stDelivered, stPc, stStore>>
    /\ UNCHANGED notStream

NextStream ==
    \/ StreamScanLine
    \/ StreamReadError
    \/ StreamEnd
    \/ ClientDisconnect

SpecStream == InitStream /\ [][NextStream]_vars

\* C34: when the cache write has been started, every line of the upstream
\* stream has been delivered to the client, and the capture was not cut short
\* by a read error or a disconnect of the client
C34_StoreOnlyAfterDelivery ==
    stStore >= 0 =>
        /\ stDelivered = stLines
        /\ stConnected
        /\ stPc # "failed"

\* a capture that ended with a read error starts no cache write
NoStoreAfterReadError == stPc = "failed" => stStore = -1

(***************************************************************************)
(* The hit count of one semantic-cache entry under concurrent lookups and  *)
(* stores.  CheckSemantic holds the read lock of sc.mu from its scan to    *)
(* its return and runs bestMatch.HitCount++ under it: a read and a write   *)
(* of the field, which the read lock of another lookup does not keep out.  *)
(* StoreSemantic holds the write lock.  The store is of another key.       *)
(***************************************************************************)
HReaders == {"l1", "l2"}
HWriters == {"s1"}

ReadersInside == {p \in HReaders : htPc[p] \in {"rlocked", "loaded", "stored"}}

InitHits ==
    /\ ParkedMetrics
    /\ ParkedStats
    /\ ParkedStream
    /\ ParkedQuota
    /\ ParkedResolve
    /\ ParkedWindow
    /\ ParkedBreaker
    /\ ParkedHealth
    /\ ParkedRelay
    /\ ParkedDist
    /\ ParkedSelector
    /\ ParkedLimiter
    /\ ParkedCache
    /\ ParkedSemantic
    /\ ParkedBatcher
    /\ ParkedRetry
    /\ ParkedDistribute
    /\ htCount = 0
    /\ htPc = [p \in HReaders \cup HWriters |-> "idle"]
    /\ htLocal = [p \in HReaders |-> 0]
    /\ htWriter = FALSE
    /\ htHits = 0
    /\ htSeen = [stores |-> 0, midUpdate |-> FALSE]

\* CheckSemantic: sc.mu.RLock() and the scan that finds the entry
HitRLock(p) ==
    /\ htPc[p] = "idle"
    /\ ~htWriter
    /\ htHits + Cardinality(ReadersInside) < MaxHitLookups
    /\ htPc' = [htPc EXCEPT ![p] = "rlocked"]
    /\ UNCHANGED <<htCount, htLocal, htWriter, htHits, htSeen>>
    /\ UNCHANGED notHits

\* bestMatch.HitCount++: the read of the field
HitLoad(p) ==
    /\ htPc[p] = "rlocked"
    /\ htPc' = [htPc EXCEPT ![p] = "loaded"]
    /\ htLocal' = [htLocal EXCEPT ![p] = htCount]
    /\ UNCHANGED <<htCount, htWriter, htHits, htSeen>>
    /\ UNCHANGED notHits

\* bestMatch.HitCount++: the write of the field
HitStore(p) ==
    /\ htPc[p] = "loaded"
    /\ htPc' = [htPc EXCEPT ![p] = "stored"]
    /\ htCount' = htLocal[p] + 1
    /\ UNCHANGED <<htLocal, htWriter, htHits, htSeen>>
    /\ UNCHANGED notHits

\* the return of CheckSemantic with the response: the deferred RUnlock
HitReturn(p) ==
    /\ htPc[p] = "stored"
    /\ htPc' = [htPc EXCEPT ![p] = "idle"]
    /\ htHits' = htHits + 1
    /\ UNCHANGED <<htCount, htLocal, htWriter, htSeen>>
    /\ UNCHANGED notHits

\* StoreSemantic: sc.mu.Lock(), granted when no lookup and no store holds the lock
StoreLock(p) ==
    /\ htPc[p] = "idle"
    /\ ~htWriter
    /\ ReadersInside = {}
    /\ htSeen.stores < MaxHitLookups
    /\ htWriter' = TRUE
    /\ htPc' = [htPc EXCEPT ![p] = "locked"]
    /\ htSeen' = [htSeen EXCEPT !.midUpdate = (@ \/ \E r \in HReaders : htPc[r] = "loaded")]
    /\ UNCHANGED <<htCount, htLocal, htHits>>
    /\ UNCHANGED notHits

\* StoreSemantic: the eviction and the insert are done, the deferred Unlock
StoreUnlock(p) ==
    /\ htPc[p] = "locked"
    /\ htWriter' = FALSE
    /\ htPc' = [htPc EXCEPT ![p] = "idle"]
    /\ htSeen' = [htSeen EXCEPT !.stores = @ + 1]
    /\ UNCHANGED <<htCount, htLocal, htHits>>
    /\ UNCHANGED notHits

NextHits ==
    \/ \E p \in HReaders : HitRLock(p)
    \/ \E p \in HReaders : HitLoad(p)
    \/ \E p \in HReaders : HitStore(p)
    \/ \E p \in HReaders : HitReturn(p)
    \/ \E p \in HWriters : StoreLock(p)
    \/ \E p \in HWriters : StoreUnlock(p)

SpecHits == InitHits /\ [][NextHits]_vars

\* C35: once the lookups that hit the entry have returned, its hit count has
\* grown by their number, and no store holding the write lock has found a
\* lookup in the middle of its update
C35_HitCountExact ==
    /\ ReadersInside = {} => htCount = htHits
    /\ ~htSeen.midUpdate

\* the lookups, one after the other, are counted, and a store never finds a
\* lookup in the middle of its update
HitCountSequential ==
    /\ (htHits = 1 /\ ReadersInside = {}) => htCount = 1
    /\ ~htSeen.midUpdate

(***************************************************************************)
(* GetChannelHealthStats against RecordSuccess and RecordFailure on one    *)
(* tracked channel, on the channel's sync.RWMutex.  RLock waits while a    *)
(* writer holds the mutex or waits for it; Lock announces itself and then  *)
(* waits until the readers have left.  Inside its read lock of the channel *)
(* GetChannelHealthStats calls SuccessRate, AvgLatency and Score, which    *)
(* take the read lock again: SuccessRate, AvgLatency, then in Score        *)
(* SuccessRate, AvgLatency and the read of ConsecutiveFail.                *)
(***************************************************************************)
HRecorders == {"w1", "w2"}

\* the locked reads inside the outer read lock
NestedReads == 5

\* whether a writer holds the mutex or has announced itself
writerPending(w) == \E p \in DOMAIN w : w[p] \in {"waiting", "held"}

\* RWMutex.RLock is granted: no writer holds the mutex or waits for it
rlockGranted(w) == ~writerPending(w)

InitStats ==
    /\ ParkedMetrics
    /\ ParkedHits
    /\ ParkedStream
    /\ ParkedQuota
    /\ ParkedResolve
    /\ ParkedWindow
    /\ ParkedBreaker
    /\ ParkedHealth
    /\ ParkedRelay
    /\ ParkedDist
    /\ ParkedSelector
    /\ ParkedLimiter
    /\ ParkedCache
    /\ ParkedSemantic
    /\ ParkedBatcher
    /\ ParkedRetry
    /\ ParkedDistribute
    /\ hsPc = "idle"
    /\ hsNested = 0
    /\ hsReaders = 0
    /\ hsW = [p \in HRecorders |-> "idle"]
    /\ hsCalls = [stats |-> 0, records |-> 0]

\* GetChannelHealthStats reaches the channel in its loop: h.mu.RLock()
StatsRLock ==
    /\ hsPc = "idle"
    /\ hsCalls.stats < MaxStatsCalls
    /\ rlockGranted(hsW)
    /\ hsPc' = "outer"
    /\ hsNested' = 0
    /\ hsReaders' = hsReaders + 1
    /\ hsCalls' = [hsCalls EXCEPT !.stats = @ + 1]
    /\ UNCHANGED hsW
    /\ UNCHANGED notStats

\* the RLock of the next locked read inside the outer read lock
StatsNestedRLock ==
    /\ hsPc = "outer"
    /\ hsNested < NestedReads
    /\ rlockGranted(hsW)
    /\ hsPc' = "nested"
    /\ hsReaders' = hsReaders + 1
    /\ UNCHANGED <<hsNested, hsW, hsCalls>>
    /\ UNCHANGED notStats

\* its RUnlock
StatsNestedRUnlock ==
    /\ hsPc = "nested"
    /\ hsPc' = "outer"
    /\ hsNested' = hsNested + 1
    /\ hsReaders' = hsReaders - 1
    /\ UNCHANGED <<hsW, hsCalls>>
    /\ UNCHANGED notStats

\* h.mu.RUnlock() of the outer read lock; with one channel the call returns
StatsRUnlock ==
    /\ hsPc = "outer"
    /\ hsNested = NestedReads
    /\ hsPc' = "idle"
    /\ hsReaders' = hsReaders - 1
    /\ UNCHANGED <<hsNested, hsW, hsCalls>>
    /\ UNCHANGED notStats

\* RecordSuccess or RecordFailure: h.mu.Lock() announces the writer; one
\* writer at a time gets that far
RecordLock(p) ==
    /\ hsW[p] = "idle"
    /\ hsCalls.records < MaxRecordCalls
    /\ ~writerPending(hsW)
    /\ hsW' = [hsW EXCEPT ![p] = "waiting"]
    /\ hsCalls' = [hsCalls EXCEPT !.records = @ + 1]
    /\ UNCHANGED <<hsPc, hsNested, hsReaders>>
    /\ UNCHANGED notStats

\* the Lock is granted once the readers have left
RecordAcquire(p) ==
    /\ hsW[p] = "waiting"
    /\ hsReaders = 0
    /\ hsW' = [hsW EXCEPT ![p] = "held"]
    /\ UNCHANGED <<hsPc, hsNested, hsReaders, hsCalls>>
    /\ UNCHANGED notStats

\* the counters are updated and the deferred Unlock runs
RecordUnlock(p) ==
    /\ hsW[p] = "held"
    /\ hsW' = [hsW EXCEPT ![p] = "idle"]
    /\ UNCHANGED <<hsPc, hsNested, hsReaders, hsCalls>>
    /\ UNCHANGED notStats

NextStats ==
    \/ StatsRLock
    \/ StatsNestedRLock
    \/ StatsNestedRUnlock
    \/ StatsRUnlock
    \/ \E p \in HRecorders : RecordLock(p)
    \/ \E p \in HRecorders : RecordAcquire(p)
    \/ \E p \in HRecorders : RecordUnlock(p)

SpecStats == InitStats /\ [][NextStats]_vars

\* C36: GetChannelHealthStats and a recorder never wait for each other: there
\* is no state in which the reader holds the channel's read lock and waits
\* for it again behind a writer that waits for the reader to leave
C36_NoMutualWait ==
    ~ /\ hsPc = "outer"
      /\ hsNested < NestedReads
      /\ hsReaders > 0
      /\ \E p \in HRecorders : hsW[p] = "waiting"

(***************************************************************************)
(* Cache metrics: the hit and miss counters over the exact-cache check of  *)
(* RelayTextHelper, one step per place that can touch a counter.           *)
(***************************************************************************)
\* what CheckCache can meet: the cache switched off (rc nil, disabled or no
\* Redis), RedisGet failing or finding nothing, a value that does not parse, a
\* cached response
CheckOutcomes == {"off", "redisErr", "badJson", "cached"}

\* cacheMetrics.RecordHit
RecordHit(hits) == hits + 1

\* cacheMetrics.RecordMiss
RecordMiss(misses) == misses + 1

InitMetrics ==
    /\ ParkedStats
    /\ ParkedHits
    /\ ParkedStream
    /\ ParkedQuota
    /\ ParkedResolve
    /\ ParkedWindow
    /\ ParkedBreaker
    /\ ParkedHealth
    /\ ParkedRelay
    /\ ParkedDist
    /\ ParkedSelector
    /\ ParkedLimiter
    /\ ParkedCache
    /\ ParkedSemantic
    /\ ParkedBatcher
    /\ ParkedRetry
    /\ ParkedDistribute
    /\ cmHits = 0
    /\ cmMisses = 0
    /\ cmPc = [r \in MReqs |-> "idle"]
    /\ cmLookups = 0

\* cache.GetCache().CheckCache(model, messages) of request r
MetricsCheckCache(r, outcome) ==
    /\ cmPc[r] = "idle"
    /\ cmLookups < MaxMetricLookups
    /\ cmLookups' = cmLookups + 1
    /\ cmHits' = IF outcome = "cached" THEN RecordHit(cmHits) ELSE cmHits
    /\ cmMisses' = IF outcome \in {"redisErr", "badJson"} THEN RecordMiss(cmMisses)
                   ELSE cmMisses
    /\ cmPc' = [cmPc EXCEPT ![r] = IF outcome = "cached" THEN "found" ELSE "notFound"]
    /\ UNCHANGED notMetrics

\* the branch of a found entry: the replay of a stream, which records a miss
\* when it fails and falls through, or the synthesized completion
MetricsFound(r, stream, replayed) ==
    /\ cmPc[r] = "found"
    /\ IF stream /\ ~replayed
       THEN /\ cmMisses' = RecordMiss(cmMisses)
            /\ cmPc' = [cmPc EXCEPT ![r] = "fallThrough"]
       ELSE /\ cmPc' = [cmPc EXCEPT ![r] = "idle"]
            /\ UNCHANGED cmMisses
    /\ UNCHANGED <<cmHits, cmLookups>>
    /\ UNCHANGED notMetrics

\* cache.CacheMetrics.RecordMiss() after the found block
MetricsFallThrough(r) ==
    /\ cmPc[r] \in {"notFound", "fallThrough"}
    /\ cmMisses' = RecordMiss(cmMisses)
    /\ cmPc' = [cmPc EXCEPT ![r] = "idle"]
    /\ UNCHANGED <<cmHits, cmLookups>>
    /\ UNCHANGED notMetrics

NextMetrics ==
    \/ \E r \in MReqs, outcome \in CheckOutcomes : MetricsCheckCache(r, outcome)
    \/ \E r \in MReqs, stream, replayed \in BOOLEAN : MetricsFound(r, stream, replayed)
    \/ \E r \in MReqs : MetricsFallThrough(r)

SpecMetrics == InitMetrics /\ [][NextMetrics]_vars

\* C40: once every request is past its cache check, the hit and miss counters
\* add up to the number of lookups made: each lookup has raised exactly one of
\* them by one
C40_HitsPlusMissesIsLookups ==
    (\A r \in MReqs : cmPc[r] = "idle") => cmHits + cmMisses = cmLookups

\* a lookup that finds a cached response and serves it counts one hit and no miss
HitsCountedOnce ==
    (\A r \in MReqs : cmPc[r] = "idle") => cmHits <= cmLookups

====
